---- MODULE Spec2Model ----
(***************************************************************************)
(* Underwater Odyssey: the authoritative server of src/unnamed/part_001    *)
(* (lines 1-356, the version with fish), as a state machine.               *)
(*                                                                         *)
(* Numbers.  JavaScript doubles are modelled in fixed point: a world       *)
(* length or speed v is the integer v * MICRO.  Math.random() results are  *)
(* per-mille integers n (the double n / PERMILLE).  The one non-number a   *)
(* double can hold here, NaN, is the value NaN below; every arithmetic     *)
(* operator and comparison the code applies is wrapped so that NaN         *)
(* behaves as in JavaScript (NaN propagates, every comparison with NaN is  *)
(* false, NaN !== NaN is true).                                            *)
(***************************************************************************)
EXTENDS Integers, Sequences, FiniteSets, TLC

(***************************************************************************)
(* Bounds of the model.                                                    *)
(***************************************************************************)
MaxConnections == 2     \* Spec: connections the server accepts in one behaviour
MaxMessages == 2        \* Spec: client frames the server handles in one behaviour
MaxTicks == 2           \* Spec: game loop ticks in one behaviour
NumSeeds == 1           \* Spec: seeds of the random source a handler may run under
FishMaxTicks == 3       \* SpecFish: game loop ticks in one behaviour
MaxCloses == 2          \* SpecClient: 'close' events of the client's sockets
WanderMaxTicks == 5     \* ticks of a run of SpecWander
MaxTickDelay == 1000    \* ms between two ticks when the interval callback runs late
MaxWorldEvents == 6     \* SpecWorld: messages, key events and render frames of the page
FrameMs == 16           \* SpecWorld: ms between two render frames

(***************************************************************************)
(* Units and program constants.                                            *)
(***************************************************************************)
MICRO == 1000000                    \* fixed-point units per world unit
PERMILLE == 1000                    \* units of a Math.random() result
CHUNK_SIZE == 16
MOVE_SPEED == 10
LOAD_RADIUS == 2
fishPerChunk == 1
FISH_MARGIN == 2
TICK_MS == 100
SEND_INTERVAL_MS == 50               \* client: setTimeout(sendPositionUpdate, 50)
RECONNECT_MS == 2000                \* client: setTimeout(connectToServer, 2000)
DIRECTION_CHANGE_MS == 3000
DIRECTION_CHANGE_CHANCE == 10       \* Math.random() < 0.01, per mille
MIN_Y == -4500000                   \* -4.5
MAX_Y == -1000000                   \* -1
NaN == -2000000000

(***************************************************************************)
(* JavaScript arithmetic on doubles that may be NaN.                       *)
(***************************************************************************)
IsNaN(a) == a = NaN

Add(a, b) == IF IsNaN(a) \/ IsNaN(b) THEN NaN ELSE a + b

\* a * (num / den), for the decimal literals of the code (0.9, 0.1, 0.02)
Scale(a, num, den) == IF IsNaN(a) THEN NaN ELSE (a * num) \div den

Lt(a, b) == ~IsNaN(a) /\ ~IsNaN(b) /\ a < b

Gt(a, b) == ~IsNaN(a) /\ ~IsNaN(b) /\ a > b

\* a !== b
StrictNe(a, b) == IsNaN(a) \/ IsNaN(b) \/ a # b

\* Math.max(lo, Math.min(hi, a))
Clamp(lo, hi, a) ==
    IF IsNaN(lo) \/ IsNaN(hi) \/ IsNaN(a) THEN NaN
    ELSE IF a < lo THEN lo ELSE IF a > hi THEN hi ELSE a

\* Math.floor(a / CHUNK_SIZE): a chunk coordinate (an integer, not scaled)
\* a division that rounds toward zero
ChunkOfTruncated(a) ==
    IF IsNaN(a) THEN NaN
    ELSE IF a >= 0 THEN a \div (CHUNK_SIZE * MICRO) ELSE -((-a) \div (CHUNK_SIZE * MICRO))

ChunkOf(a) == IF IsNaN(a) THEN NaN ELSE a \div (CHUNK_SIZE * MICRO)

\* c * CHUNK_SIZE for a chunk coordinate c, as a world length
ChunkOrigin(c) == IF IsNaN(c) THEN NaN ELSE c * CHUNK_SIZE * MICRO

Vec(x, y, z) == [x |-> x, y |-> y, z |-> z]

(***************************************************************************)
(* Math.random().  The draws of one handler run are fixed by a seed s:     *)
(* the position draws of fish f read RandVals at s + f (+1, +2), its       *)
(* velocity draws at 2s + f (+1, +2), and the direction-change draw of a   *)
(* tick at s + f.  Under FishSeeds every fish sees every value of RandVals  *)
(* in every draw, and over all fish every pair (position draw, velocity    *)
(* draw) occurs.                                                           *)
(***************************************************************************)
RandVals == <<0, 500, 999>>

RandLen == Len(RandVals)

Seeds == 0 .. NumSeeds - 1

FishSeeds == 0 .. RandLen - 1

PositionDraw(seed, fishId) == seed + fishId

VelocityDraw(seed, fishId) == 2 * seed + fishId

Random(i) == RandVals[(i % RandLen) + 1]

\* Math.random() * n for a world length n
RandomTimes(i, n) == Random(i) * n * (MICRO \div PERMILLE)

\* (Math.random() * 2 - 1) * (num / den): a velocity component
RandomVelocity(i, num, den) ==
    ((2 * Random(i) - PERMILLE) * num * (MICRO \div PERMILLE)) \div den

(***************************************************************************)
(* Frames a client can send (the parsed JSON of ws.on('message')).         *)
(***************************************************************************)
KeyNames == {"ArrowUp", "ArrowDown", "ArrowLeft", "ArrowRight"}

NoKeys == [k \in KeyNames |-> FALSE]

\* A position or velocity field of a frame: absent (undefined), or an object
\* whose x, y, z are numbers or NaN (a field that is missing or not numeric).
Absent == [defined |-> FALSE, x |-> 0, y |-> 0, z |-> 0]

Obj(x, y, z) == [defined |-> TRUE, x |-> x, y |-> y, z |-> z]

W(n) == n * MICRO

MovementFrames ==
    { [type |-> "movement", position |-> Obj(W(20), 0, 0), velocity |-> Absent],
      [type |-> "movement", position |-> Obj(W(-1), 0, W(-17)), velocity |-> Obj(W(1), 0, 0)],
      [type |-> "movement", position |-> Obj(W(100), 0, 0), velocity |-> Absent],
      [type |-> "movement", position |-> Obj(NaN, NaN, NaN), velocity |-> Absent],
      [type |-> "movement", position |-> Absent, velocity |-> Obj(W(3), 0, 0)] }

KeyPressFrames ==
    { [type |-> "keyPress", key |-> "ArrowUp", pressed |-> TRUE],
      [type |-> "keyPress", key |-> "ArrowUp", pressed |-> FALSE],
      [type |-> "keyPress", key |-> "ArrowDown", pressed |-> TRUE],
      [type |-> "keyPress", key |-> "ArrowRight", pressed |-> TRUE],
      [type |-> "keyPress", key |-> "Space", pressed |-> TRUE],
      [type |-> "keyPress", key |-> "toString", pressed |-> TRUE] }

\* invalid JSON (JSON.parse throws) and valid JSON of an unknown type
OtherFrames == { [type |-> "invalidJSON"], [type |-> "chat"] }

(***************************************************************************)
(* State.  A connection (the ws object) is named by its number, 1, 2, ...  *)
(* in the order the server accepted them.                                  *)
(***************************************************************************)
VARIABLES
    nextClientId,       \* let nextClientId
    nextFishId,         \* let nextFishId
    clients,            \* Map ws -> clientId
    connId,             \* the const clientId each connection's handlers close over
    readyState,         \* ws.readyState of every connection accepted so far
    playerPositions,    \* Map clientId -> position
    playerVelocities,   \* Map clientId -> velocity
    playerChunks,       \* Map clientId -> {x, z}
    playerKeys,         \* Map clientId -> key states
    fishEntities,       \* Map fishId -> fish
    loadedChunks,       \* Set of chunk keys "x,z", as pairs <<x, z>>
    now,                \* Date.now(), ms since the process started
    sent,               \* per connection, the frames the last handler run sent on it
    received,           \* the frame the last handler run handled, and its connection
    nMessages,          \* client frames handled so far
    nTicks              \* ticks run so far

\* One client page (the main client script).
VARIABLES
    started,            \* the start button was clicked: initializeGame() has run
    socket,             \* readyState of the WebSocket in `let socket`, or "undefined"
    clientKeyState,     \* const keyState of the client script
    timers,             \* pending setTimeout callbacks, counted per callback
    scheduled,          \* the setTimeout calls of the last handler run
    clientSent,         \* the frames the last handler run passed to socket.send
    lastSent,           \* per key, the `pressed` of the last keyPress sent: "true", "false", "none"
    clientEvent,        \* the event the last handler run handled
    nCloses,            \* 'close' events so far
    liveSockets         \* WebSocket objects of the page that are CONNECTING or OPEN

serverVars == << nextClientId, nextFishId, clients, connId, readyState, playerPositions,
                 playerVelocities, playerChunks, playerKeys, fishEntities, loadedChunks,
                 now, sent, received, nMessages, nTicks >>

clientVars == << started, socket, clientKeyState, timers, scheduled, clientSent, lastSent,
                 clientEvent, nCloses, liveSockets >>

\* History of an execution (no field of the program).
VARIABLES
    movedBy,            \* << client id, writer >> for every write that changed a stored
                        \* player position: writer is "tick" or the type of a frame
    announced           \* << connection, fish id >> for every fish sent to a connection
                        \* in a fishSpawn or a fishInit

historyVars == << movedBy, announced >>

\* The scene of the client page: the globals its message listener and its
\* render loop work on.
VARIABLES
    localClientId,      \* let clientId of the client script: NoClientId while null
    player,             \* position of the player mesh and of its physics body;
                        \* Absent before initializeGame() created them
    currentPlayerChunk, \* let currentPlayerChunk
    clientLoadedChunks, \* the keys of the client's Map loadedChunks, as pairs <<x, z>>
    otherPlayers,       \* Map pid -> position of the mesh of a remote player
    clientFishEntities, \* the client's Map fishEntities: id -> {data, mesh, chunkKey}
    fishChunkGroups,    \* the keys of the Map fishChunkGroups
    serverChunk,        \* the server's playerChunks.get(clientId) for this client
    chunkUpdatesInFlight, \* the chunks of the chunkUpdate frames sent and not yet received
    nWorldEvents,       \* messages, key events and render frames handled so far
    deliveredFish       \* history: the fish snapshots the message listener was given

sceneVars == << localClientId, player, currentPlayerChunk, clientLoadedChunks, otherPlayers,
                clientFishEntities, fishChunkGroups >>

netVars == << serverChunk, chunkUpdatesInFlight >>

worldVars == << sceneVars, netVars, nWorldEvents, deliveredFish >>

vars == << serverVars, clientVars, historyVars, worldVars >>

\* the last handler run was not ws.on('message')
NoFrame == [ws |-> 0, frame |-> [type |-> "none"]]

\* wss.clients: the connections whose 'close' event has not fired
WssClients == { s \in DOMAIN readyState : readyState[s] # "CLOSED" }

ServerInit ==
    /\ nextClientId = 0
    /\ nextFishId = 0
    /\ clients = << >>
    /\ connId = << >>
    /\ readyState = << >>
    /\ playerPositions = << >>
    /\ playerVelocities = << >>
    /\ playerChunks = << >>
    /\ playerKeys = << >>
    /\ fishEntities = << >>
    /\ loadedChunks = {}
    /\ now = 0
    /\ sent = << >>
    /\ received = NoFrame
    /\ nMessages = 0
    /\ nTicks = 0

\* the page before the start button is clicked
ClientInit ==
    /\ started = FALSE
    /\ socket = "undefined"
    /\ clientKeyState = NoKeys
    /\ timers = [sendPositionUpdate |-> 0, connectToServer |-> 0]
    /\ scheduled = << >>
    /\ clientSent = << >>
    /\ lastSent = [k \in KeyNames |-> "none"]
    /\ clientEvent = [type |-> "none"]
    /\ nCloses = 0
    /\ liveSockets = 0

HistoryInit == movedBy = {} /\ announced = {}

\* let clientId = null
NoClientId == -1

\* the globals of the client script before the start button is clicked
WorldInit ==
    /\ localClientId = NoClientId
    /\ player = Absent
    /\ currentPlayerChunk = [x |-> 0, z |-> 0]
    /\ clientLoadedChunks = {}
    /\ otherPlayers = << >>
    /\ clientFishEntities = << >>
    /\ fishChunkGroups = {}
    /\ serverChunk = [x |-> 0, z |-> 0]
    /\ chunkUpdatesInFlight = << >>
    /\ nWorldEvents = 0
    /\ deliveredFish = {}

Init == ServerInit /\ ClientInit /\ HistoryInit /\ WorldInit

\* Map.set(k, v) and Map.delete(k)
MapSet(m, k, v) == [j \in DOMAIN m \cup {k} |-> IF j = k THEN v ELSE m[j]]

\* a delete that removes nothing
MapDeleteNothing(m, k) == m

MapDelete(m, k) == [j \in DOMAIN m \ {k} |-> m[j]]

(***************************************************************************)
(* Frames the server sends.                                                *)
(***************************************************************************)
Welcome(id) == [type |-> "welcome", id |-> id]

FishInit(fish) == [type |-> "fishInit", fish |-> fish]

FishSpawn(fish) == [type |-> "fishSpawn", fish |-> fish]

ChunkUpdate(chunkX, chunkZ) ==
    [type |-> "chunkUpdate", chunkX |-> chunkX, chunkZ |-> chunkZ]

GameStateFrame(data) == [type |-> "gameState", data |-> data]

(***************************************************************************)
(* spawnFishForChunk                                                       *)
(***************************************************************************)
\* the fish object spawnFishForChunk(chunkX, chunkZ) creates under fishId
NewFish(fishId, chunkX, chunkZ, seed, t) ==
    [ id |-> fishId,
      chunkX |-> chunkX,
      chunkZ |-> chunkZ,
      position |->
        Vec(Add(ChunkOrigin(chunkX), RandomTimes(PositionDraw(seed, fishId), CHUNK_SIZE)),
            -3 * MICRO + RandomTimes(PositionDraw(seed, fishId) + 1, 2),
            Add(ChunkOrigin(chunkZ), RandomTimes(PositionDraw(seed, fishId) + 2, CHUNK_SIZE))),
      velocity |->
        Vec(RandomVelocity(VelocityDraw(seed, fishId), 2, 1),
            RandomVelocity(VelocityDraw(seed, fishId) + 1, 1, 2),
            RandomVelocity(VelocityDraw(seed, fishId) + 2, 2, 1)),
      lastDirectionChange |-> t ]

\* (a loop that forgets the loadedChunks test)
ChunkNeverLoaded(loaded, chunkKey) == TRUE

\* if (!loadedChunks.has(chunkKey))
ChunkNotLoaded(loaded, chunkKey) == chunkKey \notin loaded

\* the i-th chunk key (i = 0 .. 24) of the nested dx, dz loops around (cx, cz)
BlockKey(cx, cz, i) ==
    << Add(cx, (i \div (2 * LOAD_RADIUS + 1)) - LOAD_RADIUS),
       Add(cz, (i % (2 * LOAD_RADIUS + 1)) - LOAD_RADIUS) >>

BlockSize == (2 * LOAD_RADIUS + 1) * (2 * LOAD_RADIUS + 1)

\* The dx, dz loops from their i-th iteration on, with `loaded` the value of
\* loadedChunks there: the chunks spawnFishForChunk is called for, in order.
RECURSIVE LoadLoop(_, _, _, _)
LoadLoop(cx, cz, i, loaded) ==
    IF i >= BlockSize THEN << >>
    ELSE LET chunkKey == BlockKey(cx, cz, i) IN
         IF ChunkNotLoaded(loaded, chunkKey)
         THEN <<chunkKey>> \o LoadLoop(cx, cz, i + 1, loaded \cup {chunkKey})
         ELSE LoadLoop(cx, cz, i + 1, loaded)

SeqRange(q) == { q[i] : i \in DOMAIN q }

\* a spawn that takes no new id for a fish
SpawnedUnderOneId(chunks, seed) ==
    [ j \in 1 .. (Len(chunks) * fishPerChunk) |->
        LET c == chunks[((j - 1) \div fishPerChunk) + 1] IN
        NewFish(nextFishId, c[1], c[2], seed, now) ]

\* the fish the calls of spawnFishForChunk for `chunks` create, in order
SpawnedFish(chunks, seed) ==
    [ j \in 1 .. (Len(chunks) * fishPerChunk) |->
        LET c == chunks[((j - 1) \div fishPerChunk) + 1] IN
        NewFish(nextFishId + j - 1, c[1], c[2], seed, now) ]

\* fishEntities.set(fishId, fish) for each of them
WithFish(store, fishSeq) ==
    [ f \in DOMAIN store \cup { fishSeq[j].id : j \in DOMAIN fishSeq } |->
        IF \E j \in DOMAIN fishSeq : fishSeq[j].id = f
        THEN fishSeq[CHOOSE j \in DOMAIN fishSeq : fishSeq[j].id = f]
        ELSE store[f] ]

\* the fishSpawn broadcasts of those calls, as received by a connection in
\* state rs: if (client.readyState === WebSocket.OPEN) client.send(...)
SpawnUnannounced(rs, fishSeq) == << >>

SpawnBroadcast(rs, fishSeq) ==
    IF rs = "OPEN" THEN [ j \in DOMAIN fishSeq |-> FishSpawn(fishSeq[j]) ] ELSE << >>

(***************************************************************************)
(* wss.on('connection')                                                    *)
(***************************************************************************)
\* const clientId = nextClientId++
IssuedClientId(counter) == counter

\* a counter that issuing does not advance
CounterNotAdvanced(counter) == counter

CounterAfterIssue(counter) == counter + 1

\* what the handler sends on the new connection, in order: the fishSpawn
\* broadcasts of the preload loop reach it too (it is in wss.clients and OPEN
\* when 'connection' fires), then welcome, then fishInit if there is any fish
ConnectionFramesWithoutFish(spawnFrames, clientId, fishData) ==
    spawnFrames \o << Welcome(clientId) >>

ConnectionFrames(spawnFrames, clientId, fishData) ==
    spawnFrames \o << Welcome(clientId) >>
        \o (IF DOMAIN fishData # {} THEN << FishInit(fishData) >> ELSE << >>)

Connection(seed) ==
    LET ws == Cardinality(DOMAIN readyState) + 1
        clientId == IssuedClientId(nextClientId)
        chunks == LoadLoop(0, 0, 0, loadedChunks)
        fishSeq == SpawnedFish(chunks, seed)
        store == WithFish(fishEntities, fishSeq)
    IN
    /\ nextClientId' = CounterAfterIssue(nextClientId)
    /\ clients' = MapSet(clients, ws, clientId)
    /\ connId' = MapSet(connId, ws, clientId)
    /\ readyState' = MapSet(readyState, ws, "OPEN")
    /\ playerPositions' = MapSet(playerPositions, clientId, Obj(0, 0, 0))
    /\ playerVelocities' = MapSet(playerVelocities, clientId, Obj(0, 0, 0))
    /\ playerChunks' = MapSet(playerChunks, clientId, [x |-> 0, z |-> 0])
    /\ playerKeys' = MapSet(playerKeys, clientId, NoKeys)
    /\ loadedChunks' = loadedChunks \cup SeqRange(chunks)
    /\ fishEntities' = store
    /\ nextFishId' = nextFishId + Len(fishSeq)
    /\ sent' = [ c \in DOMAIN readyState \cup {ws} |->
                   IF c = ws
                   THEN ConnectionFrames(SpawnBroadcast("OPEN", fishSeq), clientId, store)
                   ELSE SpawnBroadcast(readyState[c], fishSeq) ]
    /\ received' = NoFrame
    /\ UNCHANGED << now, nMessages, nTicks >>

(***************************************************************************)
(* ws.on('message')                                                        *)
(***************************************************************************)
\* no handler has sent anything
NothingSent == [ c \in DOMAIN sent |-> << >> ]

\* if (chunkX !== currentChunk.x || chunkZ !== currentChunk.z)
ChunkChanged(chunkX, chunkZ, currentChunk) ==
    StrictNe(chunkX, currentChunk.x) \/ StrictNe(chunkZ, currentChunk.z)

\* the frames a movement message makes the server send to its sender, in order
MovementReply(spawnFrames, chunkX, chunkZ) ==
    spawnFrames \o << ChunkUpdate(chunkX, chunkZ) >>

\* parsedMessage.type === 'movement'.  position.x throws a TypeError when the
\* frame has no position: the catch ends the handler after lines 96-99 ran.
Movement(ws, frame, seed) ==
    LET clientId == connId[ws]
        position == frame.position
        chunkX == ChunkOf(position.x)
        chunkZ == ChunkOf(position.z)
        currentChunk == playerChunks[clientId]
        chunks == LoadLoop(chunkX, chunkZ, 0, loadedChunks)
        fishSeq == SpawnedFish(chunks, seed)
    IN
    /\ playerPositions' = MapSet(playerPositions, clientId, position)
    /\ playerVelocities' =
          IF frame.velocity.defined
          THEN MapSet(playerVelocities, clientId, frame.velocity)
          ELSE playerVelocities
    /\ IF position.defined /\ ChunkChanged(chunkX, chunkZ, currentChunk)
       THEN /\ playerChunks' = MapSet(playerChunks, clientId, [x |-> chunkX, z |-> chunkZ])
            /\ loadedChunks' = loadedChunks \cup SeqRange(chunks)
            /\ fishEntities' = WithFish(fishEntities, fishSeq)
            /\ nextFishId' = nextFishId + Len(fishSeq)
            /\ sent' = [ c \in DOMAIN sent |->
                           IF c = ws
                           THEN MovementReply(SpawnBroadcast(readyState[c], fishSeq),
                                              chunkX, chunkZ)
                           ELSE SpawnBroadcast(readyState[c], fishSeq) ]
       ELSE /\ sent' = NothingSent
            /\ UNCHANGED << playerChunks, loadedChunks, fishEntities, nextFishId >>
    /\ UNCHANGED << playerKeys >>

\* properties every object has through Object.prototype: `key in keyState`
\* is true for them too
ObjectPrototypeKeys == {"toString"}

\* keyState && parsedMessage.key in keyState
KeyAccepted(keyStates, clientId, key) ==
    /\ clientId \in DOMAIN keyStates
    /\ key \in DOMAIN keyStates[clientId] \cup ObjectPrototypeKeys

\* parsedMessage.type === 'keyPress'
KeyPress(ws, frame) ==
    LET clientId == connId[ws] IN
    /\ playerKeys' =
          IF KeyAccepted(playerKeys, clientId, frame.key)
          THEN MapSet(playerKeys, clientId,
                      MapSet(playerKeys[clientId], frame.key, frame.pressed))
          ELSE playerKeys
    /\ sent' = NothingSent
    /\ UNCHANGED << playerPositions, playerVelocities, playerChunks, loadedChunks,
                    fishEntities, nextFishId >>

\* a handler that answers a frame it does not understand
OtherFrameAnswered(ws, frame) ==
    /\ sent' = [ c \in DOMAIN sent |-> IF c = ws THEN << [type |-> "error"] >> ELSE << >> ]
    /\ UNCHANGED << playerPositions, playerVelocities, playerChunks, playerKeys,
                    loadedChunks, fishEntities, nextFishId >>

\* JSON.parse throws, or the type is neither 'keyPress' nor 'movement'
OtherFrame(ws, frame) ==
    /\ sent' = NothingSent
    /\ UNCHANGED << playerPositions, playerVelocities, playerChunks, playerKeys,
                    loadedChunks, fishEntities, nextFishId >>

\* A frame arrives on an open connection (none is delivered once the peer's
\* close frame has been read or the 'close' event has fired).
Message(ws, frame, seed) ==
    /\ ws \in DOMAIN readyState
    /\ readyState[ws] = "OPEN"
    /\ nMessages' = nMessages + 1
    /\ received' = [ws |-> ws, frame |-> frame]
    /\ CASE frame.type = "movement" -> Movement(ws, frame, seed)
         [] frame.type = "keyPress" -> KeyPress(ws, frame)
         [] OTHER -> OtherFrame(ws, frame)
    /\ UNCHANGED << nextClientId, clients, connId, readyState, now, nTicks >>

(***************************************************************************)
(* Closing.  The peer's close frame moves the socket to CLOSING; the       *)
(* 'close' event (after it, or at once when the transport drops) removes   *)
(* the socket from wss.clients and runs ws.on('close').                    *)
(***************************************************************************)
CloseFrame(ws) ==
    /\ ws \in DOMAIN readyState
    /\ readyState[ws] = "OPEN"
    /\ readyState' = [readyState EXCEPT ![ws] = "CLOSING"]
    /\ sent' = NothingSent
    /\ received' = NoFrame
    /\ UNCHANGED << nextClientId, nextFishId, clients, connId, playerPositions,
                    playerVelocities, playerChunks, playerKeys, fishEntities,
                    loadedChunks, now, nMessages, nTicks >>

\* a close that unloads everything the server holds
CloseUnloading(ws) ==
    /\ ws \in DOMAIN readyState
    /\ readyState[ws] # "CLOSED"
    /\ readyState' = [readyState EXCEPT ![ws] = "CLOSED"]
    /\ clients' = MapDelete(clients, ws)
    /\ playerPositions' = MapDelete(playerPositions, connId[ws])
    /\ playerVelocities' = MapDelete(playerVelocities, connId[ws])
    /\ playerChunks' = MapDelete(playerChunks, connId[ws])
    /\ playerKeys' = MapDelete(playerKeys, connId[ws])
    /\ fishEntities' = << >>
    /\ loadedChunks' = {}
    /\ sent' = [ c \in DOMAIN sent |-> << >> ]
    /\ received' = NoFrame
    /\ UNCHANGED << nextClientId, nextFishId, connId, now, nMessages, nTicks >>

\* ws.on('close')
Close(ws) ==
    /\ ws \in DOMAIN readyState
    /\ readyState[ws] # "CLOSED"
    /\ readyState' = [readyState EXCEPT ![ws] = "CLOSED"]
    /\ clients' = MapDelete(clients, ws)
    /\ playerPositions' = MapDelete(playerPositions, connId[ws])
    /\ playerVelocities' = MapDelete(playerVelocities, connId[ws])
    /\ playerChunks' = MapDelete(playerChunks, connId[ws])
    /\ playerKeys' = MapDelete(playerKeys, connId[ws])
    /\ sent' = NothingSent
    /\ received' = NoFrame
    /\ UNCHANGED << nextClientId, nextFishId, connId, fishEntities, loadedChunks,
                    now, nMessages, nTicks >>

(***************************************************************************)
(* The game loop                                                           *)
(***************************************************************************)
\* the velocity updatePlayerPositions derives from a key state, on one axis:
\* 0, then the negative key, then the positive key, then damping by 0.9
AxisVelocity(negativeKey, positiveKey) ==
    LET v0 == 0
        v1 == IF negativeKey THEN -(MOVE_SPEED * MICRO) ELSE v0
        v2 == IF positiveKey THEN MOVE_SPEED * MICRO ELSE v1
    IN Scale(v2, 9, 10)

\* one iteration of the loop of updatePlayerPositions: the new velocity
PlayerVelocityAfter(keyState, velocity) ==
    [velocity EXCEPT !.x = AxisVelocity(keyState["ArrowLeft"], keyState["ArrowRight"]),
                     !.z = AxisVelocity(keyState["ArrowUp"], keyState["ArrowDown"])]

\* ... and the new position: position += velocity * 0.1
PlayerPositionAfter(position, velocity) ==
    [position EXCEPT !.x = Add(position.x, Scale(velocity.x, 1, 10)),
                     !.z = Add(position.z, Scale(velocity.z, 1, 10))]

\* if (!position) continue
PlayerIsUpdated(clientId) ==
    /\ clientId \in DOMAIN playerPositions
    /\ playerPositions[clientId].defined

\* playerVelocities.get(clientId) || { x: 0, y: 0, z: 0 }
VelocityOrZero(clientId) ==
    IF clientId \in DOMAIN playerVelocities /\ playerVelocities[clientId].defined
    THEN playerVelocities[clientId]
    ELSE Obj(0, 0, 0)

UpdatedPlayerVelocities ==
    [ c \in DOMAIN playerVelocities \cup { k \in DOMAIN playerKeys : PlayerIsUpdated(k) } |->
        IF c \in DOMAIN playerKeys /\ PlayerIsUpdated(c)
        THEN PlayerVelocityAfter(playerKeys[c], VelocityOrZero(c))
        ELSE playerVelocities[c] ]

UpdatedPlayerPositions ==
    [ c \in DOMAIN playerPositions |->
        IF c \in DOMAIN playerKeys /\ PlayerIsUpdated(c)
        THEN PlayerPositionAfter(playerPositions[c],
                                 PlayerVelocityAfter(playerKeys[c], VelocityOrZero(c)))
        ELSE playerPositions[c] ]

\* a fish that changes direction by chance only
ChangesDirectionByChance(fish, t, seed) ==
    Random(PositionDraw(seed, fish.id)) < DIRECTION_CHANGE_CHANCE

\* now - fish.lastDirectionChange > 3000 || Math.random() < 0.01
ChangesDirection(fish, t, seed) ==
    \/ t - fish.lastDirectionChange > DIRECTION_CHANGE_MS
    \/ Random(PositionDraw(seed, fish.id)) < DIRECTION_CHANGE_CHANCE

\* a bound test that clamps the position and keeps the velocity
ClampOnly(lo, hi, p, v) == << Clamp(lo, hi, p), v >>

\* one bound test of updateFishPositions on one axis: <<position, velocity>>
Bounce(lo, hi, p, v) ==
    IF Lt(p, lo) \/ Gt(p, hi)
    THEN << Clamp(lo, hi, p), Scale(v, -1, 1) >>
    ELSE << p, v >>

\* one iteration of the loop of updateFishPositions
FishAfter(fish, t, seed) ==
    LET change == ChangesDirection(fish, t, seed)
        v == IF change
             THEN Vec(RandomVelocity(VelocityDraw(seed, fish.id), 2, 1),
                      RandomVelocity(VelocityDraw(seed, fish.id) + 1, 1, 2),
                      RandomVelocity(VelocityDraw(seed, fish.id) + 2, 2, 1))
             ELSE fish.velocity
        p == Vec(Add(fish.position.x, Scale(v.x, 2, 100)),
                 Add(fish.position.y, Scale(v.y, 2, 100)),
                 Add(fish.position.z, Scale(v.z, 2, 100)))
        bx == Bounce(Add(ChunkOrigin(fish.chunkX), FISH_MARGIN * MICRO),
                     Add(ChunkOrigin(Add(fish.chunkX, 1)), -(FISH_MARGIN * MICRO)),
                     p.x, v.x)
        bz == Bounce(Add(ChunkOrigin(fish.chunkZ), FISH_MARGIN * MICRO),
                     Add(ChunkOrigin(Add(fish.chunkZ, 1)), -(FISH_MARGIN * MICRO)),
                     p.z, v.z)
        by == Bounce(MIN_Y, MAX_Y, p.y, v.y)
    IN [fish EXCEPT !.position = Vec(bx[1], by[1], bz[1]),
                    !.velocity = Vec(bx[2], by[2], bz[2]),
                    !.lastDirectionChange = IF change THEN t ELSE @]

\* gameState.fish[fishId] = { id, position, velocity, chunkX, chunkZ }
FishSnapshot(fish) ==
    [ id |-> fish.id, position |-> fish.position, velocity |-> fish.velocity,
      chunkX |-> fish.chunkX, chunkZ |-> fish.chunkZ ]

\* The gameState object as the loop fills it before the broadcast.  (It is a
\* global of the program, but every field is overwritten before it is read.)
GameState(t, positions, fish) ==
    [ timestamp |-> t,
      players |-> positions,
      fish |-> [ f \in DOMAIN fish |-> FishSnapshot(fish[f]) ] ]

\* JSON.stringify of gameState: a player whose position is undefined is left out
Serialized(state) ==
    [ state EXCEPT !.players =
        [ c \in { k \in DOMAIN state.players : state.players[k].defined } |->
            state.players[c] ] ]

\* the broadcast of the tick, as received by a connection in state rs
TickBroadcast(rs, state) ==
    IF rs = "OPEN" THEN << GameStateFrame(Serialized(state)) >> ELSE << >>

\* setInterval(..., 100): a tick, `elapsed` ms after the previous tick
Tick(seed, elapsed) ==
    /\ nTicks' = nTicks + 1
    /\ now' = now + elapsed
    /\ playerPositions' = UpdatedPlayerPositions
    /\ playerVelocities' = UpdatedPlayerVelocities
    /\ fishEntities' = [ f \in DOMAIN fishEntities |-> FishAfter(fishEntities[f], now', seed) ]
    /\ sent' = [ c \in DOMAIN sent |->
                   TickBroadcast(readyState[c],
                                 GameState(now', playerPositions', fishEntities')) ]
    /\ received' = NoFrame
    /\ UNCHANGED << nextClientId, nextFishId, clients, connId, readyState, playerChunks,
                    playerKeys, loadedChunks, nMessages >>

(***************************************************************************)
(* The server: the event loop runs one handler at a time.  Spec explores   *)
(* the protocol (connections, frames, closes, ticks) under one seed of the *)
(* random source; SpecFish explores the random source on one connection.   *)
(***************************************************************************)
Accepted == Cardinality(DOMAIN readyState)

Next ==
    \/ \E seed \in Seeds :
          Accepted < MaxConnections /\ Connection(seed) /\ UNCHANGED << clientVars, historyVars, worldVars >>
    \/ \E ws \in DOMAIN readyState, frame \in MovementFrames, seed \in Seeds :
          nMessages < MaxMessages /\ Message(ws, frame, seed) /\ UNCHANGED << clientVars, historyVars, worldVars >>
    \/ \E ws \in DOMAIN readyState, frame \in KeyPressFrames :
          nMessages < MaxMessages /\ Message(ws, frame, 0) /\ UNCHANGED << clientVars, historyVars, worldVars >>
    \/ \E ws \in DOMAIN readyState, frame \in OtherFrames :
          nMessages < MaxMessages /\ Message(ws, frame, 0) /\ UNCHANGED << clientVars, historyVars, worldVars >>
    \/ \E ws \in DOMAIN readyState : CloseFrame(ws) /\ UNCHANGED << clientVars, historyVars, worldVars >>
    \/ \E ws \in DOMAIN readyState : Close(ws) /\ UNCHANGED << clientVars, historyVars, worldVars >>
    \/ \E seed \in Seeds : nTicks < MaxTicks /\ Tick(seed, TICK_MS) /\ UNCHANGED << clientVars, historyVars, worldVars >>

Spec == Init /\ [][Next]_vars

NextFish ==
    \/ \E seed \in FishSeeds : Accepted < 1 /\ Connection(seed) /\ UNCHANGED << clientVars, historyVars, worldVars >>
    \/ \E ws \in DOMAIN readyState, frame \in MovementFrames, seed \in FishSeeds :
          nMessages < 1 /\ Message(ws, frame, seed) /\ UNCHANGED << clientVars, historyVars, worldVars >>
    \/ \E seed \in FishSeeds :
          nTicks < FishMaxTicks /\ Tick(seed, TICK_MS) /\ UNCHANGED << clientVars, historyVars, worldVars >>

SpecFish == Init /\ [][NextFish]_vars

\* the players whose stored position this step changed
PositionsChanged ==
    { id \in DOMAIN playerPositions \cap DOMAIN playerPositions' :
        playerPositions'[id] # playerPositions[id] }

\* the fish ids a sequence of frames carries in fishSpawn and fishInit frames
FishIdsIn(frames) ==
    { frames[i].fish.id : i \in { j \in DOMAIN frames : frames[j].type = "fishSpawn" } }
        \cup UNION { DOMAIN frames[i].fish :
                        i \in { j \in DOMAIN frames : frames[j].type = "fishInit" } }

\* the history after a step of `writer`
Recorded(writer) ==
    /\ movedBy' = movedBy \cup (PositionsChanged \X {writer})
    /\ announced' = announced \cup
                       UNION { {c} \X FishIdsIn(sent'[c]) : c \in DOMAIN sent' }

\* The server again, with its history: every change of a stored position is
\* recorded under its writer (the tick or the frame handled), every fish
\* sent under the connection it was sent to.
NextHistory ==
    \/ \E seed \in Seeds :
          Accepted < MaxConnections /\ Connection(seed)
              /\ Recorded("connection") /\ UNCHANGED << clientVars, worldVars >>
    \/ \E ws \in DOMAIN readyState, frame \in MovementFrames, seed \in Seeds :
          nMessages < MaxMessages /\ Message(ws, frame, seed)
              /\ Recorded(frame.type) /\ UNCHANGED << clientVars, worldVars >>
    \/ \E ws \in DOMAIN readyState, frame \in KeyPressFrames :
          nMessages < MaxMessages /\ Message(ws, frame, 0)
              /\ Recorded(frame.type) /\ UNCHANGED << clientVars, worldVars >>
    \/ \E ws \in DOMAIN readyState : CloseFrame(ws) /\ Recorded("close") /\ UNCHANGED << clientVars, worldVars >>
    \/ \E ws \in DOMAIN readyState : Close(ws) /\ Recorded("close") /\ UNCHANGED << clientVars, worldVars >>
    \/ \E seed \in Seeds :
          nTicks < MaxTicks /\ Tick(seed, TICK_MS) /\ Recorded("tick") /\ UNCHANGED << clientVars, worldVars >>

SpecHistory == Init /\ [][NextHistory]_vars

\* the time between two runs of the setInterval callback: the period, or
\* more when the event loop was busy
TickDelays == {TICK_MS, MaxTickDelay}

\* The fish of one connection over ticks that come on time or late.
NextWander ==
    \/ \E seed \in FishSeeds :
          Accepted < 1 /\ Connection(seed) /\ UNCHANGED << clientVars, historyVars, worldVars >>
    \/ \E seed \in FishSeeds, elapsed \in TickDelays :
          nTicks < WanderMaxTicks /\ Tick(seed, elapsed)
              /\ UNCHANGED << clientVars, historyVars, worldVars >>

SpecWander == Init /\ [][NextWander]_vars

(***************************************************************************)
(* The client page: its socket, its timers and its keyboard handlers.      *)
(* One handler runs at a time.  After a handler run, clientSent holds the  *)
(* frames it passed to socket.send and scheduled its setTimeout calls.     *)
(***************************************************************************)
\* the keys of the keyboard events the model delivers
EventKeys == {"ArrowUp", "ArrowRight", "Space"}

\* setTimeout(sendPositionUpdate, 50) and setTimeout(connectToServer, 2000)
PositionTimer == [fn |-> "sendPositionUpdate", delay |-> SEND_INTERVAL_MS]

ReconnectTimer == [fn |-> "connectToServer", delay |-> RECONNECT_MS]

\* a 'close' listener that schedules nothing
NoReconnectTimers == << >>

\* a page whose 'error' and 'close' listeners both schedule a reconnect
TwoReconnectTimers == << ReconnectTimer, ReconnectTimer >>

\* the timers the 'close' listener schedules
ReconnectTimers == << ReconnectTimer >>

\* the pending timers after the calls of `calls` and the firing of `fired`
TimersAfter(pending, calls, fired) ==
    [ fn \in DOMAIN pending |->
        pending[fn] + Cardinality({ i \in DOMAIN calls : calls[i].fn = fn })
                    - (IF fn = fired THEN 1 ELSE 0) ]

\* the movement frame of sendPositionUpdate (its coordinates are not modelled)
MovementReport == [type |-> "movement"]

KeyPressReport(key, pressed) == [type |-> "keyPress", key |-> key, pressed |-> pressed]

\* a test that only asks for a socket: socket
SocketExists(state) == state # "undefined"

\* socket && socket.readyState === WebSocket.OPEN
SocketIsOpen(state) == state = "OPEN"

\* sendMessage(message): the frames that reach socket.send
SendMessage(state, message) == IF SocketIsOpen(state) THEN << message >> ELSE << >>

\* the body of sendPositionUpdate before it reschedules itself
PositionFrames(state, hasPlayer) ==
    IF SocketIsOpen(state) /\ hasPlayer THEN << MovementReport >> ELSE << >>

\* lastSent after the frames of `frames` went out
LastSentAfter(last, frames) ==
    [ k \in DOMAIN last |->
        IF \E i \in DOMAIN frames : frames[i].type = "keyPress" /\ frames[i].key = k
        THEN LET i == CHOOSE j \in DOMAIN frames :
                          frames[j].type = "keyPress" /\ frames[j].key = k
             IN IF frames[i].pressed THEN "true" ELSE "false"
        ELSE last[k] ]

(***************************************************************************)
(* The scene of the client page: chunks, fish and players.                 *)
(***************************************************************************)
\* the ids of a map in the order `for ... in` and Object.entries visit
\* integer-like keys: ascending
RECURSIVE IdsInOrder(_)
IdsInOrder(ids) ==
    IF ids = {} THEN << >>
    ELSE LET least == CHOOSE i \in ids : \A j \in ids : i <= j
         IN << least >> \o IdsInOrder(ids \ {least})

\* a map without one key
Without(map, key) == [ k \in DOMAIN map \ {key} |-> map[k] ]

\* a coordinate difference in hundredths of a unit, so that a squared
\* distance stays in range
Hundredths(a) == a \div (MICRO \div 100)

\* a.distanceTo(b) > 5, and Math.sqrt(dx^2 + dy^2 + dz^2) > 5
FartherThan5(a, b) ==
    LET dx == Hundredths(a.x - b.x)
        dy == Hundredths(a.y - b.y)
        dz == Hundredths(a.z - b.z)
    IN dx * dx + dy * dy + dz * dz > 500 * 500

\* serverPos.distanceTo(localPos) > 5
NeedsCorrection(serverPos, localPos) == FartherThan5(serverPos, localPos)

\* `${chunkX},${chunkZ}` of a fish snapshot (the server sends chunkX and
\* chunkZ with every fish)
FishChunkKey(fishData) == << fishData.chunkX, fishData.chunkZ >>

\* updateChunks(): the keys of chunksToLoad
ChunksToLoad(chunk) ==
    { << x, z >> : x \in chunk.x - LOAD_RADIUS .. chunk.x + LOAD_RADIUS,
                   z \in chunk.z - LOAD_RADIUS .. chunk.z + LOAD_RADIUS }

\* an unload loop that deletes the chunk and leaves its fish
KeepFishOfUnloaded(entities, groups, unloaded) == entities

\* updateChunks(), the unload loop: the fish entities left after the chunks
\* of `unloaded` are unloaded
AfterUnload(entities, groups, unloaded) ==
    [ id \in { i \in DOMAIN entities :
                 ~(entities[i].chunkKey \in unloaded /\ entities[i].chunkKey \in groups) }
        |-> entities[id] ]

\* updateChunks(): loadedChunks, fishEntities and fishChunkGroups afterwards
UpdateChunks(chunk, loaded, entities, groups) ==
    LET chunksToLoad == ChunksToLoad(chunk)
        unloaded == { key \in loaded : key \notin chunksToLoad }
    IN [ loaded   |-> (loaded \cup chunksToLoad) \ unloaded,
         entities |-> AfterUnload(entities, groups, unloaded),
         groups   |-> groups \ unloaded ]

\* the entity createFishEntity stores for a fish snapshot
NewFishEntity(fishData) ==
    [ data |-> [ id |-> fishData.id,
                 chunkX |-> fishData.chunkX,
                 chunkZ |-> fishData.chunkZ,
                 position |-> fishData.position,
                 velocity |-> fishData.velocity,
                 serverPosition |-> Absent ],
      mesh |-> fishData.position,
      chunkKey |-> FishChunkKey(fishData),
      smoothVelocity |-> Absent ]

\* loadedChunks.has(chunkKey)
ChunkIsLoaded(loaded, key) == key \in loaded

\* a creation that replaces the entity stored under the id
CreateOrReplaceFishEntity(st, loaded, fishData) ==
    IF ~ChunkIsLoaded(loaded, FishChunkKey(fishData)) THEN st
    ELSE [ entities |-> (fishData.id :> NewFishEntity(fishData))
                            @@ Without(st.entities, fishData.id),
           groups   |-> st.groups \cup {FishChunkKey(fishData)} ]

\* createFishEntity(fishData), on fishEntities and fishChunkGroups
CreateFishEntity(st, loaded, fishData) ==
    IF fishData.id \in DOMAIN st.entities THEN st
    ELSE IF ~ChunkIsLoaded(loaded, FishChunkKey(fishData)) THEN st
    ELSE [ entities |-> st.entities @@ (fishData.id :> NewFishEntity(fishData)),
           groups   |-> st.groups \cup {FishChunkKey(fishData)} ]

\* the 'fishInit' branch: createFishEntity for every fish of the message
RECURSIVE CreateAll(_, _, _, _)
CreateAll(st, loaded, fish, order) ==
    IF order = << >> THEN st
    ELSE CreateAll(CreateFishEntity(st, loaded, fish[Head(order)]), loaded, fish, Tail(order))

\* updateFishPositions, the body of its loop for one fish of the snapshot
UpdateFish(st, loaded, serverFish) ==
    LET id == serverFish.id
        key == FishChunkKey(serverFish)
    IN IF key \in loaded
       THEN IF id \in DOMAIN st.entities
            THEN LET e == st.entities[id]
                     far == FartherThan5(e.mesh, serverFish.position)
                     p == serverFish.position
                     updated ==
                         [ e EXCEPT !.data.serverPosition = Obj(p.x, p.y, p.z),
                                    !.mesh = IF far THEN p ELSE @,
                                    !.data.position = IF far THEN p ELSE @,
                                    !.data.velocity = serverFish.velocity ]
                 IN IF e.chunkKey # key
                    THEN [ entities |-> [ st.entities EXCEPT ![id] =
                                            [ updated EXCEPT !.data.chunkX = serverFish.chunkX,
                                                             !.data.chunkZ = serverFish.chunkZ,
                                                             !.chunkKey = key ] ],
                           groups |-> st.groups \cup {key} ]
                    ELSE [ st EXCEPT !.entities[id] = updated ]
            ELSE CreateFishEntity(st, loaded, serverFish)
       ELSE [ st EXCEPT !.entities = Without(@, id) ]

\* updateFishPositions(fishData)
RECURSIVE UpdateFishPositions(_, _, _, _)
UpdateFishPositions(st, loaded, fish, order) ==
    IF order = << >> THEN st
    ELSE UpdateFishPositions(UpdateFish(st, loaded, fish[Head(order)]), loaded, fish,
                             Tail(order))

\* updatePlayerPositions, the body of its first loop for one entry of the
\* snapshot; `threw` once position.x was read of a null position
UpdatePlayer(st, ownId, pid, position) ==
    IF st.threw THEN st
    ELSE IF pid = ownId
    THEN IF ~position.defined THEN [ st EXCEPT !.threw = TRUE ]
         ELSE IF NeedsCorrection(position, st.player)
         THEN [ st EXCEPT !.player = position ]
         ELSE st
    ELSE LET created == IF pid \in DOMAIN st.others THEN st.others
                        ELSE st.others @@ (pid :> Vec(0, 0, 0))
         IN IF ~position.defined
            THEN [ st EXCEPT !.others = created, !.threw = TRUE ]
            ELSE [ st EXCEPT !.others =
                       [ created EXCEPT ![pid] = Vec(position.x, position.y, position.z) ] ]

RECURSIVE UpdatePlayers(_, _, _, _)
UpdatePlayers(st, ownId, players, order) ==
    IF order = << >> THEN st
    ELSE UpdatePlayers(UpdatePlayer(st, ownId, Head(order), players[Head(order)]),
                       ownId, players, Tail(order))

\* updatePlayerPositions, its second loop: the representations of the
\* players that are in the snapshot
StillInGame(others, players) ==
    [ pid \in DOMAIN others \cap DOMAIN players |-> others[pid] ]

\* updatePlayerPositions(players): the local position and otherPlayers
\* afterwards, and whether the call threw
UpdatePlayerPositions(localPos, others, ownId, players) ==
    LET st == UpdatePlayers([player |-> localPos, others |-> others, threw |-> FALSE],
                            ownId, players, IdsInOrder(DOMAIN players))
    IN IF st.threw THEN st
       ELSE [ st EXCEPT !.others = StillInGame(@, players) ]

\* Math.abs
Abs(a) == IF a < 0 THEN -a ELSE a

\* a * deltaTime, for a frame that took FrameMs
TimesDelta(a) == Scale(a, FrameMs, 1000)

\* updateLocalFishPositions, one axis of one fish: the mesh coordinate p,
\* data.velocity v and smoothVelocity s after the correction toward the
\* server coordinate, the smoothing, the move and the bounce at lo and hi;
\* q is the coordinate copied to data.position, before the bounce
AxisAfterFrame(lo, hi, p, target, hasTarget, v, s) ==
    LET corrected == IF hasTarget THEN p + Scale(TimesDelta(target - p), 5, 100) ELSE p
        smooth == s + Scale(TimesDelta(v - s), 15, 10)
        moved == corrected + Scale(TimesDelta(smooth), 2, 10)
    IN IF moved < lo
       THEN [ p |-> lo + MICRO \div 10, q |-> moved, v |-> Abs(v),
              s |-> Scale(Abs(smooth), 8, 10) ]
       ELSE IF moved > hi
       THEN [ p |-> hi - MICRO \div 10, q |-> moved, v |-> -Abs(v),
              s |-> -Scale(Abs(smooth), 8, 10) ]
       ELSE [ p |-> moved, q |-> moved, v |-> v, s |-> smooth ]

\* Math.random() < 0.0001
FrameRedirects(draw) == Random(draw) * 10 < 1

\* updateLocalFishPositions(deltaTime), the body of its loop for one fish
UpdateLocalFish(e, draw) ==
    LET s0 == IF e.smoothVelocity.defined THEN e.smoothVelocity ELSE e.data.velocity
        sp == e.data.serverPosition
        v == e.data.velocity
        x == AxisAfterFrame(ChunkOrigin(e.data.chunkX) + W(FISH_MARGIN),
                            ChunkOrigin(e.data.chunkX + 1) - W(FISH_MARGIN),
                            e.mesh.x, sp.x, sp.defined, v.x, s0.x)
        y == AxisAfterFrame(MIN_Y, MAX_Y, e.mesh.y, sp.y, sp.defined, v.y, s0.y)
        z == AxisAfterFrame(ChunkOrigin(e.data.chunkZ) + W(FISH_MARGIN),
                            ChunkOrigin(e.data.chunkZ + 1) - W(FISH_MARGIN),
                            e.mesh.z, sp.z, sp.defined, v.z, s0.z)
    IN [ e EXCEPT !.mesh = Vec(x.p, y.p, z.p),
                  !.data.position = Vec(x.q, y.q, z.q),
                  !.smoothVelocity = Obj(x.s, y.s, z.s),
                  !.data.velocity =
                      IF FrameRedirects(draw)
                      THEN Vec(RandomVelocity(draw + 1, 15, 10),
                               RandomVelocity(draw + 2, 3, 10),
                               RandomVelocity(draw + 3, 15, 10))
                      ELSE Vec(x.v, y.v, z.v) ]

\* updateLocalFishPositions(deltaTime): fish id draws Math.random() at seed + id
UpdateLocalFishPositions(entities, seed) ==
    [ id \in DOMAIN entities |-> UpdateLocalFish(entities[id], seed + id) ]

\* applyKeyboardMovement and physicsWorld.step(fixedTimeStep): the body's
\* displacement along z in one step, for a body that was not rotated
\* (the damping of the step is left out)
PlayerStep == (MOVE_SPEED * MICRO) \div 60

StepAlongZ(keys) ==
    (IF keys["ArrowUp"] THEN -PlayerStep ELSE 0) + (IF keys["ArrowDown"] THEN PlayerStep ELSE 0)

\* the click on the start button: initializeGame() (which creates the player
\* at the origin, installs the keyboard listeners and calls updateChunks()),
\* then connectToServer()
Start ==
    /\ ~started
    /\ started' = TRUE
    /\ socket' = "CONNECTING"
    /\ clientEvent' = [type |-> "click"]
    /\ scheduled' = << >>
    /\ clientSent' = << >>
    /\ liveSockets' = liveSockets + 1
    /\ player' = Obj(0, 0, 0)
    /\ LET u == UpdateChunks(currentPlayerChunk, clientLoadedChunks, clientFishEntities,
                             fishChunkGroups)
       IN /\ clientLoadedChunks' = u.loaded
          /\ clientFishEntities' = u.entities
          /\ fishChunkGroups' = u.groups
    /\ UNCHANGED << clientKeyState, timers, lastSent, nCloses >>
    /\ UNCHANGED << localClientId, currentPlayerChunk, otherPlayers, netVars, nWorldEvents,
                    deliveredFish >>

\* socket.addEventListener('open'): calls sendPositionUpdate()
OpenEvent ==
    /\ socket = "CONNECTING"
    /\ socket' = "OPEN"
    /\ clientEvent' = [type |-> "open"]
    /\ clientSent' = PositionFrames(socket', started)
    /\ scheduled' = << PositionTimer >>
    /\ timers' = TimersAfter(timers, scheduled', "none")
    /\ UNCHANGED << started, clientKeyState, lastSent, nCloses, liveSockets >>

\* socket.addEventListener('close'), after a failed attempt ('error' comes
\* first and only changes the status text) or after an open connection ends
CloseEvent ==
    /\ socket \in {"CONNECTING", "OPEN"}
    /\ socket' = "CLOSED"
    /\ nCloses' = nCloses + 1
    /\ clientEvent' = [type |-> "close"]
    /\ clientSent' = << >>
    /\ scheduled' = ReconnectTimers
    /\ timers' = TimersAfter(timers, scheduled', "none")
    /\ liveSockets' = liveSockets - 1
    /\ UNCHANGED << started, clientKeyState, lastSent >>

\* socket.addEventListener('error'): changes the status text only
ErrorEvent ==
    /\ socket \in {"CONNECTING", "OPEN"}
    /\ clientEvent' = [type |-> "error"]
    /\ clientSent' = << >>
    /\ scheduled' = << >>
    /\ UNCHANGED << started, socket, clientKeyState, timers, lastSent, nCloses, liveSockets >>

\* a pending setTimeout(sendPositionUpdate, 50) fires
PositionTimerFires ==
    /\ timers["sendPositionUpdate"] > 0
    /\ clientEvent' = [type |-> "sendPositionUpdate"]
    /\ clientSent' = PositionFrames(socket, started)
    /\ scheduled' = << PositionTimer >>
    /\ timers' = TimersAfter(timers, scheduled', "sendPositionUpdate")
    /\ UNCHANGED << started, socket, clientKeyState, lastSent, nCloses, liveSockets >>

\* a pending setTimeout(connectToServer, 2000) fires: socket = new WebSocket(wsUrl)
ReconnectTimerFires ==
    /\ timers["connectToServer"] > 0
    /\ socket' = "CONNECTING"
    /\ clientEvent' = [type |-> "connectToServer"]
    /\ clientSent' = << >>
    /\ scheduled' = << >>
    /\ timers' = TimersAfter(timers, scheduled', "connectToServer")
    /\ liveSockets' = liveSockets + 1
    /\ UNCHANGED << started, clientKeyState, lastSent, nCloses >>

\* window.addEventListener('keydown')
KeyDown(key) ==
    /\ started
    /\ clientEvent' = [type |-> "keydown", key |-> key]
    /\ IF key \in DOMAIN clientKeyState /\ ~clientKeyState[key]
       THEN /\ clientKeyState' = [clientKeyState EXCEPT ![key] = TRUE]
            /\ clientSent' = SendMessage(socket, KeyPressReport(key, TRUE))
       ELSE /\ clientSent' = << >>
            /\ UNCHANGED clientKeyState
    /\ lastSent' = LastSentAfter(lastSent, clientSent')
    /\ scheduled' = << >>
    /\ UNCHANGED << started, socket, timers, nCloses, liveSockets >>

\* window.addEventListener('keyup')
KeyUp(key) ==
    /\ started
    /\ clientEvent' = [type |-> "keyup", key |-> key]
    /\ IF key \in DOMAIN clientKeyState
       THEN /\ clientKeyState' = [clientKeyState EXCEPT ![key] = FALSE]
            /\ clientSent' = SendMessage(socket, KeyPressReport(key, FALSE))
       ELSE /\ clientSent' = << >>
            /\ UNCHANGED clientKeyState
    /\ lastSent' = LastSentAfter(lastSent, clientSent')
    /\ scheduled' = << >>
    /\ UNCHANGED << started, socket, timers, nCloses, liveSockets >>

\* The connection is lost, or an attempt fails, at most MaxCloses times;
\* after that the server accepts and keeps the connection.
NextClient ==
    \/ Start /\ UNCHANGED << serverVars, historyVars >>
    \/ OpenEvent /\ UNCHANGED << serverVars, historyVars, worldVars >>
    \/ nCloses < MaxCloses /\ CloseEvent /\ UNCHANGED << serverVars, historyVars, worldVars >>
    \/ ErrorEvent /\ UNCHANGED << serverVars, historyVars, worldVars >>
    \/ PositionTimerFires /\ UNCHANGED << serverVars, historyVars, worldVars >>
    \/ ReconnectTimerFires /\ UNCHANGED << serverVars, historyVars, worldVars >>
    \/ \E key \in EventKeys : KeyDown(key) /\ UNCHANGED << serverVars, historyVars, worldVars >>
    \/ \E key \in EventKeys : KeyUp(key) /\ UNCHANGED << serverVars, historyVars, worldVars >>

SpecClient == Init /\ [][NextClient]_vars

\* The browser fires a due timer and resolves a connection attempt; the
\* server accepts an attempt that is not refused.
SpecClientLive ==
    /\ Init
    /\ [][NextClient]_vars
    /\ WF_vars(ReconnectTimerFires /\ UNCHANGED << serverVars, historyVars, worldVars >>)
    /\ WF_vars(OpenEvent /\ UNCHANGED << serverVars, historyVars, worldVars >>)

(***************************************************************************)
(* The message listener and the render loop of the client page.            *)
(***************************************************************************)
\* fish as the server stores and sends them: each in its home chunk, two
\* units or more inside it
FishA == [id |-> 0, chunkX |-> 0, chunkZ |-> 0,
          position |-> Vec(W(8), W(-2), W(8)), velocity |-> Vec(W(1), 0, 0)]

FishB == [id |-> 1, chunkX |-> 0, chunkZ |-> 2,
          position |-> Vec(W(8), W(-2), W(40)), velocity |-> Vec(0, 0, W(1))]

FishC == [id |-> 2, chunkX |-> 0, chunkZ |-> -3,
          position |-> Vec(W(8), W(-2), W(-40)), velocity |-> Vec(W(-1), 0, 0)]

At(fish, x) == [fish EXCEPT !.position.x = x]

FishOf(list) == [ id \in { list[i].id : i \in DOMAIN list } |->
                    list[CHOOSE i \in DOMAIN list : list[i].id = id] ]

\* the ids the server gave this client and a client that connected before it
OwnId == 1

OtherId == 0

\* the id of a client that connected after it
ThirdId == 2

\* a position that is null in the JSON of a snapshot: the server stores the
\* position field of a 'movement' frame as it comes
NullPosition == [defined |-> FALSE, x |-> 0, y |-> 0, z |-> 0]

\* data of 'gameState' frames.  The second follows the first after a short
\* time; in the third the other player has left, this player is 10 units
\* from the origin and FishA 6 units from where it was; in the fourth the
\* other player's stored position is null and a third player has joined
GameStateData ==
    { [players |-> (OwnId :> Obj(0, 0, 0)) @@ (OtherId :> Obj(W(10), 0, 0)),
       fish |-> FishOf(<< FishA, FishB, FishC >>)],
      [players |-> (OwnId :> Obj(W(3), 0, W(4))) @@ (OtherId :> Obj(W(10) + 20000, 0, 0)),
       fish |-> FishOf(<< At(FishA, W(8) + 20000), FishB, FishC >>)],
      [players |-> (OwnId :> Obj(W(6), 0, W(8))),
       fish |-> FishOf(<< At(FishA, W(14)), FishB, FishC >>)],
      [players |-> (OwnId :> Obj(0, 0, 0)) @@ (OtherId :> NullPosition)
                       @@ (ThirdId :> Obj(W(12), 0, 0)),
       fish |-> FishOf(<< FishA, FishB, FishC >>)] }

SpawnedFishData == { FishA, FishB, FishC }

FishInitData == { FishOf(<< FishA, FishB >>) }

\* the keys that move the player along z
WorldKeys == {"ArrowUp", "ArrowDown"}

FrameSeeds == {0, 1}

\* the fish snapshots a frame carries
FishCarriedBy(message) ==
    IF message.type = "fishSpawn" THEN {message.fish}
    ELSE IF message.type = "fishInit" THEN { message.fish[id] : id \in DOMAIN message.fish }
    ELSE IF message.type = "gameState"
    THEN { message.data.fish[id] : id \in DOMAIN message.data.fish }
    ELSE {}

\* what every run of the message listener and of animate leaves of the
\* page's other state
HandledOnPage(event) ==
    /\ clientEvent' = event
    /\ scheduled' = << >>
    /\ clientSent' = << >>
    /\ nWorldEvents' = nWorldEvents + 1
    /\ deliveredFish' = deliveredFish \cup
                            (IF event.type = "message" THEN FishCarriedBy(event.message) ELSE {})
    /\ UNCHANGED << started, socket, clientKeyState, timers, lastSent, nCloses, liveSockets >>
    /\ UNCHANGED serverChunk

\* 'message' listener, type 'welcome': the first frame of a connection
WelcomeMessage(id) ==
    /\ socket = "OPEN"
    /\ localClientId = NoClientId
    /\ localClientId' = id
    /\ UNCHANGED chunkUpdatesInFlight
    /\ HandledOnPage([type |-> "message", message |-> [type |-> "welcome", id |-> id]])
    /\ UNCHANGED << player, currentPlayerChunk, clientLoadedChunks, otherPlayers,
                    clientFishEntities, fishChunkGroups >>

\* 'message' listener, type 'fishInit'
FishInitMessage(fish) ==
    /\ socket = "OPEN"
    /\ localClientId # NoClientId
    /\ LET st == CreateAll([entities |-> clientFishEntities, groups |-> fishChunkGroups],
                           clientLoadedChunks, fish, IdsInOrder(DOMAIN fish))
       IN /\ clientFishEntities' = st.entities
          /\ fishChunkGroups' = st.groups
    /\ UNCHANGED chunkUpdatesInFlight
    /\ HandledOnPage([type |-> "message", message |-> [type |-> "fishInit", fish |-> fish]])
    /\ UNCHANGED << localClientId, player, currentPlayerChunk, clientLoadedChunks,
                    otherPlayers >>

\* 'message' listener, type 'fishSpawn'
FishSpawnMessage(fish) ==
    /\ socket = "OPEN"
    /\ localClientId # NoClientId
    /\ LET st == CreateFishEntity([entities |-> clientFishEntities,
                                   groups |-> fishChunkGroups], clientLoadedChunks, fish)
       IN /\ clientFishEntities' = st.entities
          /\ fishChunkGroups' = st.groups
    /\ UNCHANGED chunkUpdatesInFlight
    /\ HandledOnPage([type |-> "message", message |-> [type |-> "fishSpawn", fish |-> fish]])
    /\ UNCHANGED << localClientId, player, currentPlayerChunk, clientLoadedChunks,
                    otherPlayers >>

\* 'message' listener, type 'gameState': updatePlayerPositions, then
\* updateFishPositions unless the first threw (the listener catches it)
GameStateMessage(data) ==
    /\ socket = "OPEN"
    /\ localClientId # NoClientId
    /\ LET pl == UpdatePlayerPositions(player, otherPlayers, localClientId, data.players)
           before == [entities |-> clientFishEntities, groups |-> fishChunkGroups]
           st == IF pl.threw THEN before
                 ELSE UpdateFishPositions(before, clientLoadedChunks, data.fish,
                                          IdsInOrder(DOMAIN data.fish))
       IN /\ player' = pl.player
          /\ otherPlayers' = pl.others
          /\ clientFishEntities' = st.entities
          /\ fishChunkGroups' = st.groups
    /\ UNCHANGED chunkUpdatesInFlight
    /\ HandledOnPage([type |-> "message", message |-> [type |-> "gameState", data |-> data]])
    /\ UNCHANGED << localClientId, currentPlayerChunk, clientLoadedChunks >>

\* 'message' listener, type 'chunkUpdate': the oldest frame in flight
ChunkUpdateMessage ==
    /\ socket = "OPEN"
    /\ localClientId # NoClientId
    /\ chunkUpdatesInFlight # << >>
    /\ chunkUpdatesInFlight' = Tail(chunkUpdatesInFlight)
    /\ LET chunk == Head(chunkUpdatesInFlight)
           u == UpdateChunks(chunk, clientLoadedChunks, clientFishEntities, fishChunkGroups)
       IN /\ currentPlayerChunk' = chunk
          /\ clientLoadedChunks' = u.loaded
          /\ clientFishEntities' = u.entities
          /\ fishChunkGroups' = u.groups
          /\ HandledOnPage([type |-> "message",
                            message |-> [type |-> "chunkUpdate", chunkX |-> chunk.x,
                                         chunkZ |-> chunk.z]])
    /\ UNCHANGED << localClientId, player, otherPlayers >>

\* animate(time), one frame: the keys move the body, the mesh follows it,
\* the chunks follow the mesh, the fish move
RenderFrame(seed) ==
    /\ started
    /\ LET moved == [player EXCEPT !.z = @ + StepAlongZ(clientKeyState)]
           newChunk == [x |-> ChunkOf(moved.x), z |-> ChunkOf(moved.z)]
           changed == newChunk.x # currentPlayerChunk.x \/ newChunk.z # currentPlayerChunk.z
           u == IF changed
                THEN UpdateChunks(newChunk, clientLoadedChunks, clientFishEntities,
                                  fishChunkGroups)
                ELSE [loaded |-> clientLoadedChunks, entities |-> clientFishEntities,
                      groups |-> fishChunkGroups]
       IN /\ player' = moved
          /\ currentPlayerChunk' = IF changed THEN newChunk ELSE currentPlayerChunk
          /\ clientLoadedChunks' = u.loaded
          /\ clientFishEntities' = UpdateLocalFishPositions(u.entities, seed)
          /\ fishChunkGroups' = u.groups
    /\ UNCHANGED chunkUpdatesInFlight
    /\ HandledOnPage([type |-> "frame"])
    /\ UNCHANGED << localClientId, otherPlayers >>

\* a key event of the page, counted
KeyEvent(key, down) ==
    /\ IF down THEN KeyDown(key) ELSE KeyUp(key)
    /\ nWorldEvents' = nWorldEvents + 1
    /\ UNCHANGED << sceneVars, netVars, deliveredFish >>

\* The server handles the 'movement' frame the handler run sent: when the
\* chunk of the reported position is not the one it has recorded for the
\* client, it records it and answers with a chunkUpdate
ServerRecords ==
    LET reported == \E i \in DOMAIN clientSent' : clientSent'[i].type = "movement"
        chunk == [x |-> ChunkOf(player.x), z |-> ChunkOf(player.z)]
    IN IF reported /\ chunk # serverChunk
       THEN /\ serverChunk' = chunk
            /\ chunkUpdatesInFlight' = Append(chunkUpdatesInFlight, chunk)
       ELSE UNCHANGED netVars

NextWorld ==
    \/ Start /\ UNCHANGED << serverVars, historyVars >>
    \/ OpenEvent /\ ServerRecords
          /\ UNCHANGED << serverVars, historyVars, sceneVars, nWorldEvents,
                          deliveredFish >>
    \/ PositionTimerFires /\ ServerRecords
          /\ UNCHANGED << serverVars, historyVars, sceneVars, nWorldEvents,
                          deliveredFish >>
    \/ \E key \in WorldKeys, down \in BOOLEAN :
          nWorldEvents < MaxWorldEvents /\ KeyEvent(key, down)
              /\ UNCHANGED << serverVars, historyVars >>
    \/ nWorldEvents < MaxWorldEvents /\ WelcomeMessage(OwnId)
          /\ UNCHANGED << serverVars, historyVars >>
    \/ \E fish \in FishInitData :
          nWorldEvents < MaxWorldEvents /\ FishInitMessage(fish)
              /\ UNCHANGED << serverVars, historyVars >>
    \/ \E fish \in SpawnedFishData :
          nWorldEvents < MaxWorldEvents /\ FishSpawnMessage(fish)
              /\ UNCHANGED << serverVars, historyVars >>
    \/ \E data \in GameStateData :
          nWorldEvents < MaxWorldEvents /\ GameStateMessage(data)
              /\ UNCHANGED << serverVars, historyVars >>
    \/ nWorldEvents < MaxWorldEvents /\ ChunkUpdateMessage
          /\ UNCHANGED << serverVars, historyVars >>
    \/ \E seed \in FrameSeeds :
          nWorldEvents < MaxWorldEvents /\ RenderFrame(seed)
              /\ UNCHANGED << serverVars, historyVars >>

SpecWorld == Init /\ [][NextWorld]_vars

(***************************************************************************)
(* Vocabulary of the properties.  These definitions restate the terms of   *)
(* the specification; they do not use the operators of the handlers.       *)
(***************************************************************************)
\* floor(a / d) for a number a
FloorDiv(a, d) == CHOOSE k \in -64 .. 64 : k * d <= a /\ a < (k + 1) * d

IsNumber(a) == a # NaN

\* the home chunk of a fish
HomeChunk(fish) == << fish.chunkX, fish.chunkZ >>

\* the fish of the store homed to a chunk
FishIdsAt(chunkKey) ==
    { f \in DOMAIN fishEntities : HomeChunk(fishEntities[f]) = chunkKey }

\* the (2R+1) x (2R+1) block of chunks centred on a chunk, R = 2
InterestBlock(chunk) ==
    IF IsNumber(chunk.x) /\ IsNumber(chunk.z)
    THEN (chunk.x - 2 .. chunk.x + 2) \X (chunk.z - 2 .. chunk.z + 2)
    ELSE {}

\* the chunks within the interest radius of some connected player
GloballyLoaded == UNION { InterestBlock(playerChunks[c]) : c \in DOMAIN playerChunks }

\* how many frames of one type a handler run sent on a connection
Count(frames, type) == Cardinality({ i \in DOMAIN frames : frames[i].type = type })

(***************************************************************************)
(* C1.  spawnFishForChunk is invoked at most once for a chunk while the    *)
(* chunk stays loaded: no step (connect, movement or any other) adds a     *)
(* fish homed to a chunk that was loaded before the step, the fish a step  *)
(* adds are homed to pairwise different chunks, which are loaded after the *)
(* step, and no fish is deleted or changes its home chunk (so the fish     *)
(* homed to a chunk count the calls made for it).                          *)
(***************************************************************************)
C1_SpawnOncePerLoadedChunk ==
    [][ LET spawned == DOMAIN fishEntities' \ DOMAIN fishEntities IN
        /\ \A f \in spawned :
              /\ HomeChunk(fishEntities'[f]) \notin loadedChunks
              /\ HomeChunk(fishEntities'[f]) \in loadedChunks'
        /\ \A f, g \in spawned :
              f # g => HomeChunk(fishEntities'[f]) # HomeChunk(fishEntities'[g])
        /\ \A f \in DOMAIN fishEntities :
              /\ f \in DOMAIN fishEntities'
              /\ HomeChunk(fishEntities'[f]) = HomeChunk(fishEntities[f]) ]_vars

\* a second client has connected (its block is the loaded origin block) and a
\* client has moved to chunk (1,0), whose block overlaps the origin block in
\* 20 chunks: 25 + 5 spawns in all
C1_Witness ==
    /\ Accepted = 2
    /\ \E c \in DOMAIN playerChunks : playerChunks[c] = [x |-> 1, z |-> 0]
    /\ nextFishId = 30

(***************************************************************************)
(* C2.  No fish exists whose home chunk is outside the globally loaded     *)
(* set (the chunks within radius 2 of a connected player's chunk).         *)
(***************************************************************************)
C2_NoFishOutsideLoadedSet ==
    \A f \in DOMAIN fishEntities : HomeChunk(fishEntities[f]) \in GloballyLoaded

(***************************************************************************)
(* C3.  loadedChunks equals the union, over the connected clients, of the  *)
(* 5x5 block centred on the client's recorded chunk.                       *)
(***************************************************************************)
C3_LoadedIsUnionOfBlocks == loadedChunks = GloballyLoaded

(***************************************************************************)
(* C4.  After every tick every fish is inside its home chunk,              *)
(* floor(position.x / 16) = chunkX and floor(position.z / 16) = chunkZ,    *)
(* and its y is in the band [-4.5, -1], whatever the random draws were.    *)
(* (Every fish of the store was spawned before the tick that just ran.)    *)
(***************************************************************************)
InHomeChunk(fish) ==
    /\ IsNumber(fish.position.x) /\ IsNumber(fish.position.z)
    /\ IsNumber(fish.chunkX) /\ IsNumber(fish.chunkZ)
    /\ FloorDiv(fish.position.x, CHUNK_SIZE * MICRO) = fish.chunkX
    /\ FloorDiv(fish.position.z, CHUNK_SIZE * MICRO) = fish.chunkZ

InDepthBand(fish) ==
    /\ IsNumber(fish.position.y)
    /\ -4500000 <= fish.position.y
    /\ fish.position.y <= -1000000

C4_FishStayInHomeChunk ==
    [][ nTicks' = nTicks + 1 =>
          \A f \in DOMAIN fishEntities' :
              InHomeChunk(fishEntities'[f]) /\ InDepthBand(fishEntities'[f]) ]_vars

\* The same for the fish of the chunks that have numbers as coordinates: this
\* holds.  The fish that breaks C4 is the one a movement frame without a
\* numeric position makes the server spawn for the chunk "NaN,NaN".
FishOfNumberedChunksStayHome ==
    [][ nTicks' = nTicks + 1 =>
          \A f \in DOMAIN fishEntities' :
              IsNumber(fishEntities'[f].chunkX) /\ IsNumber(fishEntities'[f].chunkZ) =>
                  InHomeChunk(fishEntities'[f]) /\ InDepthBand(fishEntities'[f]) ]_vars

\* ... and there the bounds are met: after a tick a fish sits on the inner
\* margin of its chunk and another on the top of the depth band
FishReachTheBounds ==
    /\ nTicks > 0
    /\ \E f \in DOMAIN fishEntities :
          /\ IsNumber(fishEntities[f].chunkX)
          /\ fishEntities[f].position.x = (fishEntities[f].chunkX * CHUNK_SIZE + 2) * MICRO
    /\ \E f \in DOMAIN fishEntities : fishEntities[f].position.y = -1000000

(***************************************************************************)
(* C5.  Every open connection has exactly one player state and vice versa: *)
(* after any interleaving of connect, message, close and tick, the client  *)
(* ids with an entry in the player maps are exactly the ids of the         *)
(* connections that are open (accepted, 'close' not yet fired), one id per *)
(* connection, and the four maps have the same key set.                    *)
(***************************************************************************)
OpenConnections == { s \in DOMAIN readyState : readyState[s] \in {"OPEN", "CLOSING"} }

OpenIds == { connId[s] : s \in OpenConnections }

C5_PlayerStatePerOpenConnection ==
    /\ DOMAIN playerPositions = OpenIds
    /\ DOMAIN playerVelocities = OpenIds
    /\ DOMAIN playerChunks = OpenIds
    /\ DOMAIN playerKeys = OpenIds
    /\ Cardinality(OpenIds) = Cardinality(OpenConnections)

\* two connections were accepted, one has closed, and a message and a tick
\* have been handled
C5_Witness ==
    /\ Accepted = 2
    /\ readyState[1] = "CLOSED"
    /\ readyState[2] = "OPEN"
    /\ DOMAIN playerPositions = {1}
    /\ nMessages > 0
    /\ nTicks > 0

(***************************************************************************)
(* C6.  Client ids are issued strictly increasing from 0 and never reused: *)
(* no two connections, open or closed, have the same id, and the counter   *)
(* counts the connections accepted so far, so no disconnect resets or      *)
(* decrements it.                                                          *)
(***************************************************************************)
C6_ClientIdsNeverReused ==
    /\ \A s \in DOMAIN connId : s = 1 => connId[s] = 0
    /\ \A s, t \in DOMAIN connId : s < t => connId[s] < connId[t]
    /\ \A s \in DOMAIN connId : connId[s] < nextClientId
    /\ nextClientId = Accepted

\* a connection accepted after the first one has closed gets a new id
C6_Witness ==
    /\ Accepted = 2
    /\ readyState[1] = "CLOSED"
    /\ DOMAIN clients = {2}
    /\ connId[2] = 1
    /\ nextClientId = 2

(***************************************************************************)
(* Vocabulary of the movement properties.  In the step that handles a      *)
(* message, received' is the frame and its connection, sent' what the      *)
(* handler sent to each connection, and the unprimed variables the state   *)
(* the handler found.                                                      *)
(***************************************************************************)
MovementHandled == nMessages' = nMessages + 1 /\ received'.frame.type = "movement"

HasNumbers(position) ==
    position.defined /\ IsNumber(position.x) /\ IsNumber(position.z)

\* the chunk (floor(x / 16), floor(z / 16)) of a position with numbers
FloorChunk(position) ==
    [ x |-> FloorDiv(position.x, CHUNK_SIZE * MICRO),
      z |-> FloorDiv(position.z, CHUNK_SIZE * MICRO) ]

NewFishIds == DOMAIN fishEntities' \ DOMAIN fishEntities

ChunkUpdates(frames) == { i \in DOMAIN frames : frames[i].type = "chunkUpdate" }

(***************************************************************************)
(* C7.  A movement message whose position maps to the chunk recorded for   *)
(* its sender produces no chunkUpdate and no fish spawn; the same movement *)
(* message sent twice in a row produces no chunkUpdate on the second send; *)
(* a chunkUpdate is sent exactly when the computed chunk differs from the  *)
(* recorded one, and only to the sender.                                   *)
(***************************************************************************)
SilentWithinChunk(ws, position) ==
    HasNumbers(position) /\ FloorChunk(position) = playerChunks[connId[ws]] =>
        /\ \A c \in DOMAIN sent' : sent'[c] = << >>
        /\ NewFishIds = {}
        /\ playerChunks' = playerChunks

ChunkUpdateOnlyOnChange(ws, position) ==
    /\ \A c \in DOMAIN sent' : c # ws => ChunkUpdates(sent'[c]) = {}
    /\ Cardinality(ChunkUpdates(sent'[ws])) =
          IF position.defined
             /\ ~(HasNumbers(position) /\ FloorChunk(position) = playerChunks[connId[ws]])
          THEN 1 ELSE 0

SecondSendIsSilent(ws, frame) ==
    received = [ws |-> ws, frame |-> frame] => ChunkUpdates(sent'[ws]) = {}

C7_NoChunkUpdateWithinChunk ==
    [][ MovementHandled =>
          /\ SilentWithinChunk(received'.ws, received'.frame.position)
          /\ ChunkUpdateOnlyOnChange(received'.ws, received'.frame.position)
          /\ SecondSendIsSilent(received'.ws, received'.frame) ]_vars

\* What holds: the claim for the frames whose position has numbers (and for
\* those with no position at all).  A position whose x or z is not a number
\* computes the chunk NaN, which differs from every recorded chunk under !==,
\* the recorded NaN of the previous send included.
NoChunkUpdateWithinNumberedChunk ==
    [][ MovementHandled =>
          /\ SilentWithinChunk(received'.ws, received'.frame.position)
          /\ ChunkUpdateOnlyOnChange(received'.ws, received'.frame.position)
          /\ (HasNumbers(received'.frame.position) \/ ~received'.frame.position.defined
                => SecondSendIsSilent(received'.ws, received'.frame)) ]_vars

\* ... and its case happens: the second of two equal movement messages with
\* numbers has just been handled, in chunk (1, 0), and nothing was sent
SecondNumberedSendHandled ==
    /\ nMessages = 2
    /\ received.frame.type = "movement"
    /\ HasNumbers(received.frame.position)
    /\ playerChunks[connId[received.ws]] = [x |-> 1, z |-> 0]
    /\ FloorChunk(received.frame.position) = [x |-> 1, z |-> 0]
    /\ \A c \in DOMAIN sent : sent[c] = << >>

(***************************************************************************)
(* C8.  A movement message that places its sender in a chunk               *)
(* (floor(x / 16), floor(z / 16)) different from the recorded one makes    *)
(* the server record the new chunk, reply with one chunkUpdate carrying    *)
(* exactly those coordinates, negative ones included, and spawn fish for   *)
(* exactly the chunks of the 5x5 block around the new chunk that were not  *)
(* loaded, one fish each, and for no other chunk.                          *)
(***************************************************************************)
EntersChunk(ws, position) ==
    HasNumbers(position) /\ FloorChunk(position) # playerChunks[connId[ws]]

ChunkEntered(ws, chunk) ==
    /\ playerChunks'[connId[ws]] = chunk
    /\ Cardinality(ChunkUpdates(sent'[ws])) = 1
    /\ \A i \in ChunkUpdates(sent'[ws]) :
          sent'[ws][i].chunkX = chunk.x /\ sent'[ws][i].chunkZ = chunk.z
    /\ { HomeChunk(fishEntities'[f]) : f \in NewFishIds } = InterestBlock(chunk) \ loadedChunks
    /\ Cardinality(NewFishIds) = Cardinality(InterestBlock(chunk) \ loadedChunks)
    /\ loadedChunks' = loadedChunks \cup InterestBlock(chunk)

C8_ChunkChangeLoadsNewBlock ==
    [][ MovementHandled /\ EntersChunk(received'.ws, received'.frame.position) =>
          ChunkEntered(received'.ws, FloorChunk(received'.frame.position)) ]_vars

\* the movement to (-1, 0, -17) has been answered with chunkUpdate (-1, -2),
\* and fish were spawned for the part of that block which was not loaded
C8_Witness ==
    /\ received.frame.type = "movement"
    /\ HasNumbers(received.frame.position)
    /\ received.frame.position.x = -1000000
    /\ playerChunks[connId[received.ws]] = [x |-> -1, z |-> -2]
    /\ \E i \in DOMAIN sent[received.ws] :
          sent[received.ws][i] = [type |-> "chunkUpdate", chunkX |-> -1, chunkZ |-> -2]
    /\ Cardinality({ i \in DOMAIN sent[received.ws] :
                        sent[received.ws][i].type = "fishSpawn" }) = 13

(***************************************************************************)
(* Vocabulary of the connect properties.  In the step that accepts a       *)
(* connection, Accepted' is the new connection and sent'[Accepted'] the    *)
(* frames the handler sent on it, in order.                                *)
(***************************************************************************)
ConnectionAccepted == Accepted' = Accepted + 1

FramesOfType(frames, type) == { i \in DOMAIN frames : frames[i].type = type }

(***************************************************************************)
(* C9.  On every connect the client is sent a welcome carrying its id (0   *)
(* for the first connection of the process) and exactly one fishInit,      *)
(* which lists the complete fish population of the server at that moment;  *)
(* that population has fish of all 25 chunks of the block around the       *)
(* origin.                                                                 *)
(***************************************************************************)
WelcomedWithOwnId(ws, frames) ==
    /\ Cardinality(FramesOfType(frames, "welcome")) = 1
    /\ \A i \in FramesOfType(frames, "welcome") :
          /\ frames[i].id = connId'[ws]
          /\ ws = 1 => frames[i].id = 0

GivenWholePopulation(frames) ==
    /\ Cardinality(FramesOfType(frames, "fishInit")) = 1
    /\ \A i \in FramesOfType(frames, "fishInit") :
          /\ frames[i].fish = fishEntities'
          /\ \A chunk \in (-2 .. 2) \X (-2 .. 2) :
                \E f \in DOMAIN frames[i].fish : HomeChunk(frames[i].fish[f]) = chunk

C9_WelcomeAndFishInitOnConnect ==
    [][ ConnectionAccepted =>
          /\ WelcomedWithOwnId(Accepted', sent'[Accepted'])
          /\ GivenWholePopulation(sent'[Accepted']) ]_vars

\* the second connection has just been accepted, after the first one had
\* moved and loaded more chunks: its fishInit lists more than the 25 fish of
\* the origin block
C9_Witness ==
    /\ Accepted = 2
    /\ \E i \in DOMAIN sent[2] : sent[2][i] = [type |-> "welcome", id |-> 1]
    /\ \E i \in DOMAIN sent[2] :
          /\ sent[2][i].type = "fishInit"
          /\ Cardinality(DOMAIN sent[2][i].fish) > 25

(***************************************************************************)
(* C10.  The welcome is the first message the server sends on a new        *)
(* connection: no fishSpawn, fishInit or gameState is sent to a connection *)
(* before its welcome.  (A welcome is sent only by the step that accepts   *)
(* the connection, so `sent` of that step holds all that came before it.)  *)
(***************************************************************************)
C10_WelcomeIsFirstMessage ==
    \A c \in DOMAIN sent :
        \A i \in FramesOfType(sent[c], "welcome") :
            \A j \in 1 .. (i - 1) :
                sent[c][j].type \notin {"fishSpawn", "fishInit", "gameState"}

(***************************************************************************)
(* C11.  If the interest blocks of two clients both contain a chunk and    *)
(* one of the two disconnects, the chunk remains loaded and the fish homed *)
(* to it remain in the fish store with the same ids and unchanged state.   *)
(***************************************************************************)
\* the step is the 'close' event of connection ws
CloseHandled(ws) == readyState[ws] # "CLOSED" /\ readyState'[ws] = "CLOSED"

SharedChunks(ws) ==
    { chunk \in InterestBlock(playerChunks[connId[ws]]) :
        \E c \in DOMAIN playerChunks :
            c # connId[ws] /\ chunk \in InterestBlock(playerChunks[c]) }

FishHomedTo(store, chunk) == { f \in DOMAIN store : HomeChunk(store[f]) = chunk }

C11_SharedChunkSurvivesDisconnect ==
    [][ \A ws \in DOMAIN readyState :
          CloseHandled(ws) =>
              \A chunk \in SharedChunks(ws) :
                  /\ chunk \in loadedChunks
                  /\ chunk \in loadedChunks'
                  /\ FishHomedTo(fishEntities, chunk) # {}
                  /\ FishHomedTo(fishEntities', chunk) = FishHomedTo(fishEntities, chunk)
                  /\ \A f \in FishHomedTo(fishEntities, chunk) :
                        fishEntities'[f] = fishEntities[f] ]_vars

\* the second client, at the origin, has disconnected while the first is in
\* chunk (1, 0): chunk (0, 0) was in both blocks and still has its fish
C11_Witness ==
    /\ Accepted = 2
    /\ readyState[1] = "OPEN"
    /\ readyState[2] = "CLOSED"
    /\ DOMAIN playerChunks = {0}
    /\ playerChunks[0] = [x |-> 1, z |-> 0]
    /\ << 0, 0 >> \in loadedChunks
    /\ FishHomedTo(fishEntities, << 0, 0 >>) # {}

(***************************************************************************)
(* C12.  If a chunk leaves every connected client's interest block and     *)
(* later re-enters some client's block, fish are spawned for it again with *)
(* new fish ids, and the fish it held before the unload no longer exist.   *)
(* (loadedChunks records the chunks that have been in some block; one of   *)
(* them that is in no block now has left every block.)                     *)
(***************************************************************************)
HasLeftEveryBlock(chunk) == chunk \in loadedChunks /\ chunk \notin GloballyLoaded

ReEnters(chunk) == HasLeftEveryBlock(chunk) /\ chunk \in GloballyLoaded'

C12_ReloadSpawnsFreshFish ==
    [][ \A chunk \in loadedChunks :
          ReEnters(chunk) =>
              /\ \E f \in NewFishIds :
                    HomeChunk(fishEntities'[f]) = chunk /\ f >= nextFishId
              /\ \A f \in FishHomedTo(fishEntities, chunk) : f \notin DOMAIN fishEntities' ]_vars

(***************************************************************************)
(* C13.  A frame that is not valid JSON, or valid JSON with a type the     *)
(* server does not know, leaves all server state unchanged (player maps,   *)
(* fish store, loadedChunks, id counters), makes the server send nothing   *)
(* to any client, and leaves the sender's connection open.                 *)
(***************************************************************************)
UnknownFrameHandled ==
    /\ nMessages' = nMessages + 1
    /\ received'.frame.type \notin {"movement", "keyPress"}

C13_UnknownFrameIsDropped ==
    [][ UnknownFrameHandled =>
          /\ UNCHANGED << playerPositions, playerVelocities, playerChunks, playerKeys >>
          /\ UNCHANGED << fishEntities, loadedChunks, nextClientId, nextFishId >>
          /\ UNCHANGED << clients, readyState >>
          /\ \A c \in DOMAIN sent' : sent'[c] = << >>
          /\ readyState'[received'.ws] = "OPEN" ]_vars

\* a frame that is not JSON has just been handled, as the second message, on
\* a server with two connections and fish
C13_Witness ==
    /\ received.frame.type = "invalidJSON"
    /\ nMessages = 2
    /\ Accepted = 2
    /\ readyState[received.ws] = "OPEN"
    /\ DOMAIN fishEntities # {}
    /\ \A c \in DOMAIN sent : sent[c] = << >>

(***************************************************************************)
(* C14.  A movement message with a missing or null position is dropped:    *)
(* the sender's stored position, velocity and chunk are the same after it  *)
(* as before, the connection stays open, and the sender still appears in   *)
(* the players map of the gameState snapshots that follow.                 *)
(***************************************************************************)
InvalidMovementHandled == MovementHandled /\ ~received'.frame.position.defined

TickHandled == nTicks' = nTicks + 1

GameStates(frames) == { frames[i].data : i \in FramesOfType(frames, "gameState") }

SenderStateKept(ws) ==
    /\ playerPositions'[connId[ws]] = playerPositions[connId[ws]]
    /\ playerVelocities'[connId[ws]] = playerVelocities[connId[ws]]
    /\ playerChunks'[connId[ws]] = playerChunks[connId[ws]]

ConnectedPlayersAppear ==
    \A c \in DOMAIN sent' :
        \A data \in GameStates(sent'[c]) :
            \A s \in OpenConnections : connId[s] \in DOMAIN data.players

C14_InvalidMovementIsDropped ==
    [][ /\ InvalidMovementHandled =>
              SenderStateKept(received'.ws) /\ readyState'[received'.ws] = "OPEN"
        /\ TickHandled => ConnectedPlayersAppear ]_vars

\* What holds of such a message: the recorded chunk is kept, nothing is sent
\* and the connection stays open.  The stored position becomes undefined
\* (line 96 runs before position.x throws), the velocity of the frame is
\* stored, and JSON.stringify leaves the player out of the snapshots.
InvalidMovementKeepsChunkAndConnection ==
    [][ InvalidMovementHandled =>
          /\ playerChunks' = playerChunks
          /\ readyState'[received'.ws] = "OPEN"
          /\ \A c \in DOMAIN sent' : sent'[c] = << >>
          /\ ~playerPositions'[connId[received'.ws]].defined ]_vars

(***************************************************************************)
(* C15.  No malformed client message affects other clients or stops the    *)
(* tick: a message whose fields are missing or not numbers leaves the      *)
(* other clients' player state, the fish store and loadedChunks unchanged  *)
(* and makes the server send nothing to any other client, and every later  *)
(* tick runs to completion and broadcasts.                                 *)
(***************************************************************************)
Malformed(frame) ==
    \/ frame.type = "movement" /\ ~HasNumbers(frame.position)
    \/ frame.type = "keyPress" /\ frame.key \notin {"ArrowUp", "ArrowDown", "ArrowLeft", "ArrowRight"}

MalformedHandled == nMessages' = nMessages + 1 /\ Malformed(received'.frame)

OtherPlayersKept(ws) ==
    \A c \in DOMAIN playerPositions :
        c # connId[ws] =>
            /\ c \in DOMAIN playerPositions' /\ playerPositions'[c] = playerPositions[c]
            /\ c \in DOMAIN playerVelocities' /\ playerVelocities'[c] = playerVelocities[c]
            /\ c \in DOMAIN playerChunks' /\ playerChunks'[c] = playerChunks[c]
            /\ c \in DOMAIN playerKeys' /\ playerKeys'[c] = playerKeys[c]

TickBroadcasts ==
    \A c \in DOMAIN readyState :
        readyState[c] = "OPEN" => Cardinality(FramesOfType(sent'[c], "gameState")) = 1

C15_MalformedMessageIsContained ==
    [][ /\ MalformedHandled =>
              /\ OtherPlayersKept(received'.ws)
              /\ fishEntities' = fishEntities
              /\ loadedChunks' = loadedChunks
              /\ \A c \in DOMAIN sent' : c # received'.ws => sent'[c] = << >>
        /\ TickHandled => TickBroadcasts ]_vars

\* What holds: the other clients' player state is kept and every tick
\* broadcasts.  A movement whose x or z is not a number does spawn a fish for
\* the chunk "NaN,NaN", which is broadcast to every open connection.
MalformedMessageSparesOtherPlayers ==
    [][ /\ MalformedHandled => OtherPlayersKept(received'.ws)
        /\ TickHandled => TickBroadcasts ]_vars

(***************************************************************************)
(* C16.  Each tick the gameState message has in its players map exactly    *)
(* the currently connected players with their current positions and in its *)
(* fish map exactly the fish of the fish store; it is sent to every        *)
(* connection whose state is OPEN and to no connection in another state.   *)
(***************************************************************************)
ListsThePlayers(data) ==
    /\ DOMAIN data.players = DOMAIN playerPositions'
    /\ \A c \in DOMAIN data.players : data.players[c] = playerPositions'[c]

ListsTheFish(data) ==
    /\ DOMAIN data.fish = DOMAIN fishEntities'
    /\ \A f \in DOMAIN data.fish :
          /\ data.fish[f].position = fishEntities'[f].position
          /\ data.fish[f].velocity = fishEntities'[f].velocity
          /\ data.fish[f].chunkX = fishEntities'[f].chunkX
          /\ data.fish[f].chunkZ = fishEntities'[f].chunkZ

SentToOpenOnly ==
    \A c \in DOMAIN readyState :
        IF readyState[c] = "OPEN"
        THEN Cardinality(FramesOfType(sent'[c], "gameState")) = 1 /\ Len(sent'[c]) = 1
        ELSE sent'[c] = << >>

C16_SnapshotListsPlayersAndFish ==
    [][ TickHandled =>
          /\ SentToOpenOnly
          /\ \A c \in DOMAIN sent' :
                \A data \in GameStates(sent'[c]) : ListsThePlayers(data) /\ ListsTheFish(data) ]_vars

\* What holds: the message lists the connected players whose stored position
\* is defined, every fish of the store, and goes to the OPEN connections only.
SnapshotListsPlayersWithPosition ==
    [][ TickHandled =>
          /\ SentToOpenOnly
          /\ \A c \in DOMAIN sent' :
                \A data \in GameStates(sent'[c]) :
                    /\ DOMAIN data.players =
                          { p \in DOMAIN playerPositions' : playerPositions'[p].defined }
                    /\ \A p \in DOMAIN data.players : data.players[p] = playerPositions'[p]
                    /\ ListsTheFish(data) ]_vars

\* ... and its case happens: a tick has just broadcast while connection 1 was
\* CLOSING and connection 2 OPEN, and both players are listed
SnapshotSkipsClosingConnection ==
    /\ nTicks > 0
    /\ Accepted = 2
    /\ readyState[1] = "CLOSING"
    /\ readyState[2] = "OPEN"
    /\ sent[1] = << >>
    /\ GameStates(sent[2]) # {}
    /\ \A data \in GameStates(sent[2]) : DOMAIN data.players = {0, 1}

(***************************************************************************)
(* C17.  A close event may arrive at any point between ticks.  After it    *)
(* the client's id is absent from every player map and from the players    *)
(* map of every later gameState, and the tick that follows skips the       *)
(* missing player and still updates every remaining player and every fish. *)
(***************************************************************************)
ClosedIds == { connId[s] : s \in { t \in DOMAIN readyState : readyState[t] = "CLOSED" } }

AbsentFromPlayerMaps(id) ==
    /\ id \notin DOMAIN playerPositions'
    /\ id \notin DOMAIN playerVelocities'
    /\ id \notin DOMAIN playerChunks'
    /\ id \notin DOMAIN playerKeys'

AbsentFromSnapshots(id) ==
    \A c \in DOMAIN sent' :
        \A data \in GameStates(sent'[c]) : id \notin DOMAIN data.players

\* the speed the keys of one axis ask for, in world units per second, after
\* the damping: the key of the positive direction wins over the other
KeySpeed(negativeKey, positiveKey) ==
    IF positiveKey THEN 9000000 ELSE IF negativeKey THEN -9000000 ELSE 0

PlayerMoved(id) ==
    /\ id \in DOMAIN playerPositions /\ playerPositions[id].defined
    /\ id \in DOMAIN playerPositions' /\ id \in DOMAIN playerVelocities'
    /\ playerVelocities'[id].x = KeySpeed(playerKeys[id]["ArrowLeft"], playerKeys[id]["ArrowRight"])
    /\ playerVelocities'[id].z = KeySpeed(playerKeys[id]["ArrowUp"], playerKeys[id]["ArrowDown"])
    /\ playerPositions'[id].x = Add(playerPositions[id].x, playerVelocities'[id].x \div 10)
    /\ playerPositions'[id].z = Add(playerPositions[id].z, playerVelocities'[id].z \div 10)
    /\ playerPositions'[id].y = playerPositions[id].y

\* on one axis a fish has advanced by velocity * 0.02 or sits on a bound
AxisMoved(before, after, velocity, lo, hi) ==
    \/ after = Add(before, (velocity * 2) \div 100)
    \/ after = lo
    \/ after = hi

FishMoved(f) ==
    /\ f \in DOMAIN fishEntities'
    /\ LET old == fishEntities[f]
           new == fishEntities'[f]
       IN /\ AxisMoved(old.position.x, new.position.x, new.velocity.x,
                       (old.chunkX * 16 + 2) * MICRO, (old.chunkX * 16 + 14) * MICRO)
          /\ AxisMoved(old.position.z, new.position.z, new.velocity.z,
                       (old.chunkZ * 16 + 2) * MICRO, (old.chunkZ * 16 + 14) * MICRO)
          /\ AxisMoved(old.position.y, new.position.y, new.velocity.y, -4500000, -1000000)

C17_CloseBetweenTicks ==
    [][ /\ \A ws \in DOMAIN readyState :
              CloseHandled(ws) => AbsentFromPlayerMaps(connId[ws])
        /\ TickHandled =>
              /\ \A id \in ClosedIds : AbsentFromPlayerMaps(id) /\ AbsentFromSnapshots(id)
              /\ \A id \in DOMAIN playerKeys : PlayerMoved(id)
              /\ \A f \in DOMAIN fishEntities : FishMoved(f) ]_vars

\* What holds: the same, for the remaining players that have a stored
\* position; updatePlayerPositions skips a player whose stored position is
\* undefined (267-268).
CloseBetweenTicksSparesTheRest ==
    [][ /\ \A ws \in DOMAIN readyState :
              CloseHandled(ws) => AbsentFromPlayerMaps(connId[ws])
        /\ TickHandled =>
              /\ \A id \in ClosedIds : AbsentFromPlayerMaps(id) /\ AbsentFromSnapshots(id)
              /\ \A id \in DOMAIN playerKeys : playerPositions[id].defined => PlayerMoved(id)
              /\ \A f \in DOMAIN fishEntities : FishMoved(f) ]_vars

\* ... and its case happens: connection 1 has closed, the tick after it has
\* moved the remaining player, whose ArrowUp key is down, and broadcast
TickAfterCloseMovedTheRest ==
    /\ nTicks > 0
    /\ readyState = << "CLOSED", "OPEN" >>
    /\ DOMAIN playerKeys = {1}
    /\ playerKeys[1]["ArrowUp"]
    /\ playerPositions[1].defined /\ playerPositions[1].z = -900000
    /\ \A data \in GameStates(sent[2]) : DOMAIN data.players = {1}
    /\ GameStates(sent[2]) # {}

(***************************************************************************)
(* Vocabulary of the client properties.  In the step that handles an       *)
(* event, clientEvent' is the event, clientSent' what the handler sent and *)
(* scheduled' the timers it set; the unprimed variables are the state the  *)
(* handler found.                                                          *)
(***************************************************************************)
KeyEventHandled(type) ==
    /\ clientEvent'.type = type
    /\ clientEvent'.key \in {"ArrowUp", "ArrowDown", "ArrowLeft", "ArrowRight"}

KeyPressesSent == { i \in DOMAIN clientSent' : clientSent'[i].type = "keyPress" }

TimersSet(fn) == { i \in DOMAIN scheduled' : scheduled'[i].fn = fn }

(***************************************************************************)
(* C18.  The client sends a keyPress only on an input edge: a keydown for  *)
(* a key whose local state is already pressed sends nothing, a keyup for a *)
(* key whose local state is already released sends nothing, and every      *)
(* keyPress sent reports a value different from the last one sent for that *)
(* key.                                                                    *)
(***************************************************************************)
RepeatedKeyDownIsSilent ==
    KeyEventHandled("keydown") /\ clientKeyState[clientEvent'.key] => clientSent' = << >>

RepeatedKeyUpIsSilent ==
    KeyEventHandled("keyup") /\ ~clientKeyState[clientEvent'.key] => clientSent' = << >>

EveryKeyPressIsAChange ==
    \A i \in KeyPressesSent :
        lastSent[clientSent'[i].key] # (IF clientSent'[i].pressed THEN "true" ELSE "false")

C18_KeyPressOnlyOnEdge ==
    [][ RepeatedKeyDownIsSilent /\ RepeatedKeyUpIsSilent /\ EveryKeyPressIsAChange ]_vars

\* What holds: the keydown half.  The keyup listener has no test of the
\* local state and sends on every keyup of a tracked key.
KeyDownOnlyOnEdge == [][ RepeatedKeyDownIsSilent ]_vars

\* ... and its case happens: a keydown of a key that was down already has
\* just been handled on an open socket, and nothing was sent
RepeatedKeyDownHandled ==
    /\ clientEvent = [type |-> "keydown", key |-> "ArrowUp"]
    /\ socket = "OPEN"
    /\ clientKeyState["ArrowUp"]
    /\ lastSent["ArrowUp"] = "true"
    /\ clientSent = << >>

(***************************************************************************)
(* C19.  The client reports its position once per 50 ms send interval: at  *)
(* every moment, also after any number of connection losses and            *)
(* reconnects, at most one sendPositionUpdate timer is pending.            *)
(***************************************************************************)
C19_OnePositionTimer == timers["sendPositionUpdate"] <= 1

(***************************************************************************)
(* C20.  After every close event the client schedules exactly one          *)
(* reconnect attempt, after the same fixed delay of 2000 ms however many   *)
(* earlier attempts failed, with no limit on the number of attempts; so    *)
(* once the server accepts connections again the client is eventually      *)
(* connected.                                                              *)
(***************************************************************************)
CloseEventHandled == nCloses' = nCloses + 1

OneReconnectScheduled ==
    /\ Cardinality(TimersSet("connectToServer")) = 1
    /\ \A i \in TimersSet("connectToServer") : scheduled'[i].delay = 2000
    /\ timers'["connectToServer"] = timers["connectToServer"] + 1

C20_ReconnectAfterFixedDelay ==
    /\ [][ CloseEventHandled => OneReconnectScheduled ]_vars
    /\ (socket = "CLOSED") ~> (socket = "OPEN")

\* the second close in a row of an attempt that never opened has just been
\* handled: one reconnect timer, of 2000 ms, is pending
C20_Witness ==
    /\ nCloses = 2
    /\ clientEvent.type = "close"
    /\ socket = "CLOSED"
    /\ timers["sendPositionUpdate"] = 0
    /\ timers["connectToServer"] = 1
    /\ scheduled = << [fn |-> "connectToServer", delay |-> 2000] >>


(***************************************************************************)
(* C21.  One live connection per page.                                     *)
(***************************************************************************)
\* this step ran connectToServer(): a WebSocket object was created
ConnectInvoked == liveSockets' = liveSockets + 1

\* the socket the page holds is neither connecting nor open
NoLiveSocket == socket \notin {"CONNECTING", "OPEN"}

\* C21: a client page has at most one connection that is connecting or open
\* at any time, and connectToServer is never invoked (by the click or by a
\* reconnect timer, whatever open, error and close events came before) while
\* the previous socket is still connecting or open.
C21_OneLiveConnection ==
    /\ [](liveSockets <= 1)
    /\ [][ ConnectInvoked => NoLiveSocket ]_vars

\* a reconnect timer has just run connectToServer after the second close
C21_Witness ==
    /\ clientEvent.type = "connectToServer"
    /\ nCloses = 2
    /\ socket = "CONNECTING"
    /\ liveSockets = 1

(***************************************************************************)
(* C22.  A send while the socket is not OPEN.                              *)
(***************************************************************************)
\* this step ran a handler that attempts a send (a key handler calling
\* sendMessage, or sendPositionUpdate) while the socket was not OPEN
SendWhileNotOpen ==
    /\ socket # "OPEN"
    /\ clientEvent'.type \in {"keydown", "keyup", "sendPositionUpdate"}

\* the key state differs at most at the key the handler set before it
\* called sendMessage
KeyStateKeptBySend ==
    /\ DOMAIN clientKeyState' = DOMAIN clientKeyState
    /\ \A k \in DOMAIN clientKeyState :
          clientKeyState'[k] # clientKeyState[k]
             => clientEvent'.type \in {"keydown", "keyup"} /\ clientEvent'.key = k

\* nothing went out, nothing was recorded as sent, no timer was added beyond
\* the periodic rescheduling of sendPositionUpdate, and the socket is as it was
DroppedSilently ==
    /\ clientSent' = << >>
    /\ lastSent' = lastSent
    /\ timers' = timers
    /\ scheduled' = (IF clientEvent'.type = "sendPositionUpdate"
                     THEN << PositionTimer >> ELSE << >>)
    /\ socket' = socket
    /\ liveSockets' = liveSockets
    /\ started' = started
    /\ KeyStateKeptBySend

\* every frame a step sends was produced by the handler of that step: a
\* keyPress by the key handler of its key, a movement by sendPositionUpdate
SentFramesAreFresh ==
    /\ Len(clientSent') <= 1
    /\ \A i \in DOMAIN clientSent' :
          IF clientSent'[i].type = "keyPress"
          THEN /\ clientEvent'.type \in {"keydown", "keyup"}
               /\ clientSent'[i].key = clientEvent'.key
               /\ clientSent'[i].pressed = (clientEvent'.type = "keydown")
          ELSE clientEvent'.type \in {"open", "sendPositionUpdate"}

\* C22: a send attempted by the client while its socket is not OPEN
\* (sendMessage for a keyPress, or the periodic sendPositionUpdate) transmits
\* nothing, raises no error, is not queued for later delivery (no later step
\* sends a frame of an earlier handler), and leaves the client's state as
\* the handler had it before the send.
C22_SendWhileClosedIsDropped ==
    /\ [][ SendWhileNotOpen => DroppedSilently ]_vars
    /\ [][ SentFramesAreFresh ]_vars

\* ArrowUp went down while the socket was CLOSED: the key is held, no
\* keyPress was ever sent for it
C22_Witness ==
    /\ clientEvent = [type |-> "keydown", key |-> "ArrowUp"]
    /\ socket = "CLOSED"
    /\ clientKeyState["ArrowUp"]
    /\ lastSent["ArrowUp"] = "none"
    /\ clientSent = << >>

\* the connection came back with ArrowUp still held and never reported:
\* the 'open' handler sent the movement frame only
SendDroppedThenReopened ==
    /\ clientEvent.type = "open"
    /\ nCloses > 0
    /\ clientKeyState["ArrowUp"]
    /\ lastSent["ArrowUp"] = "none"
    /\ clientSent = << MovementReport >>

(***************************************************************************)
(* C23.  What a tick makes of a player's key state.                        *)
(***************************************************************************)
\* the velocity the claim gives an axis: zero with no key or with both
\* opposing keys held, else the speed 10 damped by 0.9 towards the held key
ClaimedAxisVelocity(negativeKey, positiveKey) ==
    IF negativeKey = positiveKey THEN 0
    ELSE IF positiveKey THEN (MOVE_SPEED * MICRO * 9) \div 10
    ELSE -((MOVE_SPEED * MICRO * 9) \div 10)

\* the players a tick integrates: those with a stored position
IntegratedPlayers == { id \in DOMAIN playerKeys : PlayerIsUpdated(id) }

\* the tick left player id with the velocities of `speed` and moved the
\* position by velocity * 0.1 on x and z
IntegratedWith(id, speed(_, _)) ==
    /\ playerVelocities'[id].x = speed(playerKeys[id]["ArrowLeft"], playerKeys[id]["ArrowRight"])
    /\ playerVelocities'[id].z = speed(playerKeys[id]["ArrowUp"], playerKeys[id]["ArrowDown"])
    /\ playerPositions'[id].x = Add(playerPositions[id].x, playerVelocities'[id].x \div 10)
    /\ playerPositions'[id].z = Add(playerPositions[id].z, playerVelocities'[id].z \div 10)

\* C23: in every tick and for every player (with a stored position), the
\* velocity on an axis is zero after the tick and the position on that axis
\* unchanged whenever no key of the axis or both opposing keys are held; with
\* exactly one key held the velocity is 10 damped by 0.9 in that key's
\* direction and the position advances by velocity times 0.1.
C23_KeysSetVelocity ==
    [][ TickHandled => \A id \in IntegratedPlayers : IntegratedWith(id, ClaimedAxisVelocity) ]_vars

\* What holds: the same with the opposing keys resolved as the code does,
\* ArrowDown over ArrowUp and ArrowRight over ArrowLeft.
LaterKeyTestWins ==
    [][ TickHandled => \A id \in IntegratedPlayers : IntegratedWith(id, KeySpeed) ]_vars

\* ... and its cases happen: a tick has run for a player holding ArrowUp and
\* ArrowDown, who moved towards +z
OpposingKeysIntegrated ==
    /\ nTicks > 0
    /\ \E id \in DOMAIN playerKeys :
          /\ playerKeys[id]["ArrowUp"] /\ playerKeys[id]["ArrowDown"]
          /\ id \in DOMAIN playerVelocities /\ playerVelocities[id].defined
          /\ playerVelocities[id].z = 9000000
          /\ playerPositions[id].defined /\ playerPositions[id].z = 900000

\* ... and for a player holding ArrowUp only, who moved towards -z, and for
\* one holding nothing, who stayed
SingleKeyIntegrated ==
    /\ nTicks > 0
    /\ \E id \in DOMAIN playerKeys :
          /\ playerKeys[id]["ArrowUp"] /\ ~playerKeys[id]["ArrowDown"]
          /\ id \in DOMAIN playerVelocities /\ playerVelocities[id].defined
          /\ playerVelocities[id].z = -9000000 /\ playerVelocities[id].x = 0
          /\ playerPositions[id].defined
          /\ playerPositions[id].z = -900000 /\ playerPositions[id].x = 0

(***************************************************************************)
(* C24.  The recorded chunk after a tick.                                  *)
(***************************************************************************)
\* every player with a numeric position is recorded in the chunk of that
\* position, and the block around that chunk is loaded
RecordedChunksAreCurrent ==
    \A id \in DOMAIN playerChunks :
        (id \in DOMAIN playerPositions /\ HasNumbers(playerPositions[id]))
            => /\ playerChunks[id] = FloorChunk(playerPositions[id])
               /\ InterestBlock(FloorChunk(playerPositions[id])) \subseteq loadedChunks

\* C24: after every tick each player's recorded chunk equals
\* (floor(position.x / 16), floor(position.z / 16)) of the position the tick
\* just computed; when key-driven integration carries a player across a
\* chunk boundary the tick updates the recorded chunk and loads the newly
\* entered chunks.
C24_TickUpdatesChunk == [][ TickHandled => RecordedChunksAreCurrent' ]_vars

\* What holds: a tick never writes playerChunks or loadedChunks and spawns
\* no fish; the recorded chunk follows the position only when a movement
\* message is handled.
TickKeepsChunks ==
    [][ TickHandled => /\ playerChunks' = playerChunks
                       /\ loadedChunks' = loadedChunks
                       /\ DOMAIN fishEntities' = DOMAIN fishEntities ]_vars

\* ... and its case happens: a tick carried a player holding ArrowUp from
\* (0, 0, 0) to z = -0.9, in chunk (0, -1), while the recorded chunk is
\* still (0, 0) and the row z = -3 of the new block is not loaded
CrossedWithoutChunkUpdate ==
    /\ nTicks > 0
    /\ \E id \in DOMAIN playerChunks :
          /\ playerPositions[id].defined
          /\ playerPositions[id].x = 0 /\ playerPositions[id].z = -900000
          /\ playerChunks[id] = [x |-> 0, z |-> 0]
          /\ FloorChunk(playerPositions[id]) = [x |-> 0, z |-> -1]
          /\ << 0, -3 >> \notin loadedChunks

(***************************************************************************)
(* C25.  The two movement-authority modes.                                 *)
(***************************************************************************)
\* C25: the two movement-authority modes are never mixed: in no execution is
\* the position of one player changed both by the tick's integration of that
\* player's key state and by a movement message reporting a position.
C25_AuthorityNeverMixed ==
    \A id \in DOMAIN playerPositions :
        ~(<< id, "tick" >> \in movedBy /\ << id, "movement" >> \in movedBy)

\* What holds: a keyPress frame writes no position; the writers of a
\* position are the tick and the movement frame.
PositionWriters == \A w \in movedBy : w[2] \in {"tick", "movement"}

\* ... and both have written the position of the same player
BothWritersActed ==
    \E id \in DOMAIN playerPositions :
        << id, "tick" >> \in movedBy /\ << id, "movement" >> \in movedBy

(***************************************************************************)
(* C26.  A fish on an inner margin bound, heading out.                     *)
(***************************************************************************)
\* the fish with a numbered home chunk
NumberedFish ==
    { f \in DOMAIN fishEntities :
        IsNumber(fishEntities[f].chunkX) /\ IsNumber(fishEntities[f].chunkZ) }

\* the inner margin bounds of a home chunk coordinate: 2 units inside its edges
LowBound(c) == (c * 16 + 2) * MICRO

HighBound(c) == (c * 16 + 14) * MICRO

\* the cases of the claim, as << fish, axis, bound, outward sign >>: a fish
\* on a bound of an axis with the velocity of that axis pointing outward
OnBoundHeadingOut ==
    { c \in NumberedFish \X {"x", "z"} \X {"low", "high"} :
        LET fish == fishEntities[c[1]]
            home == IF c[2] = "x" THEN fish.chunkX ELSE fish.chunkZ
            p == IF c[2] = "x" THEN fish.position.x ELSE fish.position.z
            v == IF c[2] = "x" THEN fish.velocity.x ELSE fish.velocity.z
        IN IF c[3] = "low" THEN p = LowBound(home) /\ v < 0
                           ELSE p = HighBound(home) /\ v > 0 }

\* position, velocity and bound of a case after the step
PositionAfterStep(c) ==
    IF c[2] = "x" THEN fishEntities'[c[1]].position.x ELSE fishEntities'[c[1]].position.z

VelocityAfterStep(c) ==
    IF c[2] = "x" THEN fishEntities'[c[1]].velocity.x ELSE fishEntities'[c[1]].velocity.z

VelocityBeforeStep(c) ==
    IF c[2] = "x" THEN fishEntities[c[1]].velocity.x ELSE fishEntities[c[1]].velocity.z

BoundOf(c) ==
    LET home == IF c[2] = "x" THEN fishEntities[c[1]].chunkX ELSE fishEntities[c[1]].chunkZ
    IN IF c[3] = "low" THEN LowBound(home) ELSE HighBound(home)

\* the sign of the velocity is the opposite of the outward one
HeadsIn(c) == IF c[3] = "low" THEN VelocityAfterStep(c) > 0 ELSE VelocityAfterStep(c) < 0

\* the step drew no new velocity for the fish
KeptDirection(c) ==
    fishEntities'[c[1]].lastDirectionChange = fishEntities[c[1]].lastDirectionChange

\* C26: for a fish positioned exactly on an inner margin bound of its home
\* chunk with velocity pointing outward on that axis at the start of an AI
\* step, the sign of that velocity component after the step is the opposite
\* of its sign before the step and the position on that axis is the bound.
C26_BounceOnBound ==
    [][ TickHandled => \A c \in OnBoundHeadingOut :
                          HeadsIn(c) /\ PositionAfterStep(c) = BoundOf(c) ]_vars

\* C26 as it holds: if the step draws no new velocity for the fish, the
\* velocity component is reversed and the position is the bound; if it draws
\* one, the fish moves with the new velocity, which is reversed only when it
\* points outward too.  In both cases the fish does not head out after the
\* step and is within the bounds.
C26_BounceOnBoundUnlessRedirected ==
    [][ TickHandled =>
          \A c \in OnBoundHeadingOut :
              /\ KeptDirection(c) =>
                    /\ VelocityAfterStep(c) = -VelocityBeforeStep(c)
                    /\ PositionAfterStep(c) = BoundOf(c)
              /\ HeadsIn(c) \/ VelocityAfterStep(c) = 0
              /\ IF c[3] = "low" THEN PositionAfterStep(c) >= BoundOf(c)
                                 ELSE PositionAfterStep(c) <= BoundOf(c) ]_vars

\* after two ticks without a new velocity, a fish spawned in the margin
\* sits on the low x bound of chunk (0, 0) heading in: the first tick put it
\* on the bound heading out, the second reversed it there
C26_Witness ==
    /\ nTicks = 2
    /\ \E f \in NumberedFish :
          /\ fishEntities[f].chunkX = 0
          /\ fishEntities[f].position.x = LowBound(0)
          /\ fishEntities[f].velocity.x > 0
          /\ fishEntities[f].lastDirectionChange <= now - 2 * TICK_MS

(***************************************************************************)
(* C27.  Direction changes of a fish and the range of its velocity.        *)
(***************************************************************************)
\* the age of the last direction change of a fish as the tick sees it
AgeAtTick(f) == now' - fishEntities[f].lastDirectionChange

\* the tick changed the direction of the fish
Redirected(f) == fishEntities'[f].lastDirectionChange = now'

\* the values (Math.random() * 2 - 1) * limit can take, and their negations
Drawable(limit) ==
    LET draws == { ((2 * RandVals[i] - 1000) * limit) \div 1000 : i \in DOMAIN RandVals }
    IN draws \cup { -v : v \in draws }

\* the velocity of a fish is one a direction change can leave
DrawnVelocity(fish) ==
    /\ fish.velocity.x \in Drawable(2 * MICRO)
    /\ fish.velocity.y \in Drawable(MICRO \div 2)
    /\ fish.velocity.z \in Drawable(2 * MICRO)

\* |vx| <= 2, |vy| <= 0.5, |vz| <= 2
WithinSpeedLimits(fish) ==
    /\ -2 * MICRO <= fish.velocity.x /\ fish.velocity.x <= 2 * MICRO
    /\ -(MICRO \div 2) <= fish.velocity.y /\ fish.velocity.y <= MICRO \div 2
    /\ -2 * MICRO <= fish.velocity.z /\ fish.velocity.z <= 2 * MICRO

\* a fish whose last change is more than 3000 ms old at a tick is redirected
AgedFishAreRedirected ==
    \A f \in DOMAIN fishEntities :
        AgeAtTick(f) > 3000 => Redirected(f) /\ DrawnVelocity(fishEntities'[f])

\* two consecutive direction changes are at most 3000 ms + slack apart
ChangesWithin(slack) ==
    \A f \in DOMAIN fishEntities : Redirected(f) => AgeAtTick(f) <= 3000 + slack

\* C27: a fish whose last direction change is more than 3000 ms old gets a
\* new velocity and a reset lastDirectionChange on the next tick, so the time
\* between two consecutive direction changes of a fish never exceeds 3000 ms
\* plus one tick period (100 ms); every velocity a fish ever has satisfies
\* |vx| <= 2, |vz| <= 2 and |vy| <= 0.5, including after bounces.
C27_DirectionChangeWithinPeriod ==
    /\ [](\A f \in DOMAIN fishEntities : WithinSpeedLimits(fishEntities[f]))
    /\ [][ TickHandled => AgedFishAreRedirected /\ ChangesWithin(TICK_MS) ]_vars

\* C27 as it holds: the same, with the time between two consecutive
\* direction changes bounded by 3000 ms plus the time since the previous
\* tick, which is the tick period only when the tick is on time.
C27_DirectionChangeWithinElapsed ==
    /\ [](\A f \in DOMAIN fishEntities : WithinSpeedLimits(fishEntities[f]))
    /\ [][ TickHandled => AgedFishAreRedirected /\ ChangesWithin(now' - now) ]_vars

\* a tick has just redirected a fish whose last change was 3100 ms old
C27_Witness ==
    /\ nTicks > 0
    /\ now = 3100
    /\ \E f \in DOMAIN fishEntities :
          /\ fishEntities[f].lastDirectionChange = now
          /\ \A g \in DOMAIN fishEntities : fishEntities[g].lastDirectionChange \in {0, now}

(***************************************************************************)
(* C28.  Every fish reaches every open connection.                         *)
(***************************************************************************)
\* the fishSpawn frames a step sent on a connection for a fish
SpawnFramesFor(c, f) ==
    { i \in DOMAIN sent'[c] : sent'[c][i].type = "fishSpawn" /\ sent'[c][i].fish.id = f }

\* each fish the step spawned went out in exactly one fishSpawn on every
\* connection that is OPEN, and no fishSpawn carries another fish
SpawnAnnouncedOnce ==
    \A c \in DOMAIN readyState' :
        /\ readyState'[c] = "OPEN" =>
              \A f \in NewFishIds : Cardinality(SpawnFramesFor(c, f)) = 1
        /\ \A i \in DOMAIN sent'[c] :
              sent'[c][i].type = "fishSpawn" => sent'[c][i].fish.id \in NewFishIds

\* every fish of the store was sent to every connection that is OPEN
EveryFishWasSent ==
    \A c \in DOMAIN readyState :
        readyState[c] = "OPEN" => \A f \in DOMAIN fishEntities : << c, f >> \in announced

\* C28: each spawned fish is announced by exactly one fishSpawn message to
\* every connection that is OPEN at the moment of the spawn; together with
\* fishInit, for every open connection and every fish in the server store,
\* that fish has been sent to that connection in a fishInit or a fishSpawn.
C28_EveryFishAnnounced ==
    /\ [][ SpawnAnnouncedOnce ]_vars
    /\ []EveryFishWasSent

\* two connections are OPEN and a movement frame of the first has just
\* spawned fish, announced on both
C28_Witness ==
    /\ received.frame.type = "movement"
    /\ DOMAIN readyState = {1, 2}
    /\ readyState[1] = "OPEN" /\ readyState[2] = "OPEN"
    /\ Cardinality(DOMAIN fishEntities) > 25
    /\ Count(sent[1], "fishSpawn") > 0
    /\ Count(sent[2], "fishSpawn") = Count(sent[1], "fishSpawn")

(***************************************************************************)
(* C29.  One fish per loaded chunk, under an id of its own.                *)
(***************************************************************************)
\* every loaded chunk is the home of exactly one fish, and there are as many
\* fish as loaded chunks
OneFishPerLoadedChunk ==
    /\ \A chunk \in loadedChunks : Cardinality(FishHomedTo(fishEntities, chunk)) = 1
    /\ Cardinality(DOMAIN fishEntities) = Cardinality(loadedChunks)

\* the fish are stored under the ids issued so far, each under its own
FishIdsAreTheIssuedOnes ==
    /\ DOMAIN fishEntities = 0 .. nextFishId - 1
    /\ \A f \in DOMAIN fishEntities : fishEntities[f].id = f

\* a step stores as many new fish as it issues ids and as it loads chunks
EverySpawnUnderFreshId ==
    /\ Cardinality(NewFishIds) = nextFishId' - nextFishId
    /\ Cardinality(NewFishIds) = Cardinality(loadedChunks' \ loadedChunks)
    /\ \A f \in NewFishIds : f >= nextFishId

KeyPressHandled == nMessages' = nMessages + 1 /\ received'.frame.type = "keyPress"

\* nothing but the key state of the sender changed, and nothing was sent
OnlySenderKeysTouched ==
    /\ playerPositions' = playerPositions
    /\ playerVelocities' = playerVelocities
    /\ playerChunks' = playerChunks
    /\ fishEntities' = fishEntities
    /\ nextFishId' = nextFishId
    /\ loadedChunks' = loadedChunks
    /\ readyState' = readyState
    /\ DOMAIN playerKeys' = DOMAIN playerKeys
    /\ \A c \in DOMAIN playerKeys :
          c # connId[received'.ws] => playerKeys'[c] = playerKeys[c]
    /\ \A c \in DOMAIN sent' : sent'[c] = << >>

\* the key state of the sender is as before except, for one of the four
\* key names, at that key
OnlyNamedKeySet ==
    LET id == connId[received'.ws]
        frame == received'.frame
    IN IF frame.key \in {"ArrowUp", "ArrowDown", "ArrowLeft", "ArrowRight"}
       THEN playerKeys'[id] = [playerKeys[id] EXCEPT ![frame.key] = frame.pressed]
       ELSE playerKeys'[id] = playerKeys[id]

\* C30: a keyPress message changes only the sender's own key state for the
\* named key: a key name outside {ArrowUp, ArrowDown, ArrowLeft, ArrowRight}
\* changes nothing, and no keyPress changes any position, velocity, chunk,
\* fish, loadedChunks or another client's key state, nor causes any message
\* to be sent.
C30_KeyPressFrameEffect ==
    [][ KeyPressHandled => OnlySenderKeysTouched /\ OnlyNamedKeySet ]_vars

\* What holds: all of it but for the key names an object inherits, which the
\* `in` test accepts and the handler then stores in the sender's key state.
KeyPressTouchesSenderKeysOnly ==
    [][ KeyPressHandled =>
          /\ OnlySenderKeysTouched
          /\ received'.frame.key \notin ObjectPrototypeKeys => OnlyNamedKeySet ]_vars

\* ... and its cases happen: with two players connected, a keyPress for
\* ArrowUp of the second has just been handled, and one for Space
KeyPressOfSecondPlayerHandled ==
    /\ received.frame = [type |-> "keyPress", key |-> "ArrowUp", pressed |-> TRUE]
    /\ received.ws = 2
    /\ playerKeys[connId[2]]["ArrowUp"]
    /\ ~playerKeys[connId[1]]["ArrowUp"]

UntrackedKeyHandled ==
    /\ received.frame = [type |-> "keyPress", key |-> "Space", pressed |-> TRUE]
    /\ playerKeys[connId[received.ws]] = NoKeys

\* ... and the case that fails: the sender's key state has a toString entry
InheritedKeyStored ==
    /\ received.frame.type = "keyPress"
    /\ "toString" \in DOMAIN playerKeys[connId[received.ws]]

(***************************************************************************)
(* Vocabulary of the properties of the client's scene.                     *)
(***************************************************************************)
\* the last handler run was the message listener, for a frame of this type
MessageHandled(type) ==
    /\ clientEvent'.type = "message"
    /\ clientEvent'.message.type = type

\* the snapshot the message listener has just handled
HandledSnapshot == clientEvent'.message.data

\* the square of the distance of two positions, in hundredths of a unit
SquaredDistance(a, b) ==
    LET d(u, v) == (u - v) \div 10000
    IN d(a.x, b.x) * d(a.x, b.x) + d(a.y, b.y) * d(a.y, b.y) + d(a.z, b.z) * d(a.z, b.z)

MoreThan5Apart(a, b) == SquaredDistance(a, b) > 250000

\* the snapshot lists a position object for every player
WellFormed(data) == \A id \in DOMAIN data.players : data.players[id].defined

\* the local position after a snapshot is the reported one if that was more
\* than 5 units away, and the old one otherwise
SnappedIffFar(data) ==
    localClientId \in DOMAIN data.players =>
        IF MoreThan5Apart(data.players[localClientId], player)
        THEN player' = data.players[localClientId]
        ELSE player' = player

(***************************************************************************)
(* C31.  On a gameState the client replaces its local position by the      *)
(* position the server reports for its own id if and only if the two are   *)
(* more than 5 units apart; at 5 units or less the local position stays.   *)
(***************************************************************************)
C31_SnapIffFartherThan5 ==
    [][ MessageHandled("gameState") => SnappedIffFar(HandledSnapshot) ]_vars

\* ... which holds for the snapshots that list a position for every player
SnapIffFarInWellFormedSnapshots ==
    [][ MessageHandled("gameState") /\ WellFormed(HandledSnapshot)
            => SnappedIffFar(HandledSnapshot) ]_vars

\* the local player has just been moved to the reported position
SnappedToReported ==
    /\ clientEvent.type = "message"
    /\ clientEvent.message.type = "gameState"
    /\ WellFormed(clientEvent.message.data)
    /\ player = Obj(W(6), 0, W(8))
    /\ nWorldEvents = 2

\* a snapshot that reports a position exactly 5 units away has just been
\* handled and the local player is where it was
KeptAt5Units ==
    /\ clientEvent.type = "message"
    /\ clientEvent.message.type = "gameState"
    /\ clientEvent.message.data.players[OwnId] = Obj(W(3), 0, W(4))
    /\ player = Obj(0, 0, 0)

\* a snapshot whose first entry is null was handled while the reported
\* position was more than 5 units away: the local player was not moved
NotSnappedAfterNullEntry ==
    /\ clientEvent.type = "message"
    /\ clientEvent.message.type = "gameState"
    /\ ~WellFormed(clientEvent.message.data)
    /\ MoreThan5Apart(clientEvent.message.data.players[OwnId], player)

\* the last handler run was a render frame
FrameHandled == clientEvent'.type = "frame"

\* the snapshot just handled moves the authoritative position of a remote
\* player the client displays, by 5 units at most
SmallRemoteChange(pid) ==
    /\ pid \in DOMAIN otherPlayers
    /\ pid \in DOMAIN HandledSnapshot.players
    /\ HandledSnapshot.players[pid].defined
    /\ SquaredDistance(HandledSnapshot.players[pid], otherPlayers[pid]) > 0
    /\ ~MoreThan5Apart(HandledSnapshot.players[pid], otherPlayers[pid])

\* the displayed position of a remote player is short of the position
\* the snapshot reports
ShortOfReported(pid) ==
    LET p == HandledSnapshot.players[pid]
    IN otherPlayers'[pid] # Vec(p.x, p.y, p.z)

(***************************************************************************)
(* C32.  When the authoritative position of a remote player changes by a   *)
(* small amount between two snapshots, the position the client displays    *)
(* for that player moves by less than the full change in the first render  *)
(* frame after the second snapshot and reaches the authoritative position  *)
(* only after several frames: when the message callback returns, the       *)
(* displayed position is still short of the reported one.                  *)
(***************************************************************************)
C32_RemotePlayerEasesToSnapshot ==
    [][ MessageHandled("gameState")
            => \A pid \in DOMAIN otherPlayers :
                   SmallRemoteChange(pid) => ShortOfReported(pid) ]_vars

\* a render frame leaves the displayed positions of the remote players
RenderFrameKeepsRemotePlayers == [][ FrameHandled => otherPlayers' = otherPlayers ]_vars

\* the second snapshot has just been handled, no frame was rendered since,
\* and the remote player is displayed at the position it reports
FullChangeShownAtOnce ==
    /\ clientEvent.type = "message"
    /\ clientEvent.message.type = "gameState"
    /\ nWorldEvents = 3
    /\ OtherId \in DOMAIN otherPlayers
    /\ clientEvent.message.data.players[OtherId] = Obj(W(10) + 20000, 0, 0)
    /\ otherPlayers[OtherId] = Vec(W(10) + 20000, 0, 0)

\* the last handler run was the message listener
AnyMessageHandled == clientEvent'.type = "message"

\* the fish and the remote players displayed before and after a step
KeptFish == DOMAIN clientFishEntities \cap DOMAIN clientFishEntities'

KeptPlayers == DOMAIN otherPlayers \cap DOMAIN otherPlayers'

\* the step left every displayed position where it was
DisplayedPositionsKept ==
    /\ player' = player
    /\ \A pid \in KeptPlayers : otherPlayers'[pid] = otherPlayers[pid]
    /\ \A id \in KeptFish : clientFishEntities'[id].mesh = clientFishEntities[id].mesh

(***************************************************************************)
(* C33.  Handling a network message on the client updates target state     *)
(* only: the displayed position of a fish, of a remote player and of the   *)
(* local player is never changed inside the message callback.              *)
(***************************************************************************)
C33_MessagesKeepDisplayedPositions == [][ AnyMessageHandled => DisplayedPositionsKept ]_vars

\* What holds instead: a message moves the local player and a fish only
\* over more than 5 units, and only a gameState does
MessagesMoveOnlyFarFishAndLocalPlayer ==
    [][ AnyMessageHandled =>
          /\ player' # player =>
                /\ MessageHandled("gameState")
                /\ MoreThan5Apart(HandledSnapshot.players[localClientId], player)
                /\ player' = HandledSnapshot.players[localClientId]
          /\ \A id \in KeptFish :
                clientFishEntities'[id].mesh # clientFishEntities[id].mesh =>
                    /\ MessageHandled("gameState")
                    /\ MoreThan5Apart(HandledSnapshot.fish[id].position,
                                      clientFishEntities[id].mesh)
                    /\ clientFishEntities'[id].mesh = HandledSnapshot.fish[id].position ]_vars

\* a fish closer than that gets its target state only (when the snapshot
\* lists a position for every player, so that the listener reaches the fish)
NearFishGetTargetOnly ==
    [][ MessageHandled("gameState") /\ WellFormed(HandledSnapshot) =>
          \A id \in KeptFish :
              clientFishEntities'[id].mesh = clientFishEntities[id].mesh =>
                  clientFishEntities'[id].data.serverPosition.defined ]_vars

\* a gameState has just moved a displayed fish to its reported position
FishTeleportedByMessage ==
    /\ clientEvent.type = "message"
    /\ clientEvent.message.type = "gameState"
    /\ nWorldEvents = 3
    /\ 0 \in DOMAIN clientFishEntities
    /\ clientFishEntities[0].mesh = Vec(W(14), W(-2), W(8))
    /\ clientFishEntities[0].data.serverPosition.defined

\* a gameState has just given a displayed fish a target and left its mesh
FishTargetStored ==
    /\ clientEvent.type = "message"
    /\ clientEvent.message.type = "gameState"
    /\ 0 \in DOMAIN clientFishEntities
    /\ clientFishEntities[0].data.serverPosition = Obj(W(8) + 20000, W(-2), W(8))
    /\ clientFishEntities[0].mesh = Vec(W(8), W(-2), W(8))

(***************************************************************************)
(* C34.  On the client, after every event (fishInit, fishSpawn, gameState, *)
(* chunkUpdate, or a render frame that changes the current chunk), every   *)
(* fish held in fishEntities has a chunk key that is in loadedChunks: no   *)
(* fish is instantiated for an unloaded chunk, and unloading a chunk       *)
(* removes every fish entity of that chunk.                                *)
(***************************************************************************)
C34_FishOnlyInLoadedChunks ==
    \A id \in DOMAIN clientFishEntities :
        clientFishEntities[id].chunkKey \in clientLoadedChunks

\* ... and its case happens: a render frame moved the player to chunk
\* (0,-1), the fish of chunk (0,-3) was instantiated after that, and no fish
\* of the unloaded chunk (0,2) is held
C34_Witness ==
    /\ clientEvent.type = "frame"
    /\ currentPlayerChunk = [x |-> 0, z |-> -1]
    /\ << 0, 2 >> \notin clientLoadedChunks
    /\ DOMAIN clientFishEntities = {0, 2}
    /\ clientFishEntities[2].chunkKey = << 0, -3 >>

\* the 25 chunks centred on the chunk of the local player's position
BlockAroundPlayer == InterestBlock(FloorChunk(player))

(***************************************************************************)
(* C35.  The client's loaded set follows its own position: after every     *)
(* message and every render frame, loadedChunks is exactly the 25-chunk    *)
(* block centred on the chunk (floor(x/16), floor(z/16)) of the local      *)
(* player's position, so a chunkUpdate from the server never makes the     *)
(* client unload a chunk within radius 2 of its own position.              *)
(***************************************************************************)
C35_LoadedBlockFollowsPlayer == started => clientLoadedChunks = BlockAroundPlayer

\* What holds instead: the loaded set is the block around currentPlayerChunk,
\* which a chunkUpdate sets to the chunk the server names ...
LoadedBlockFollowsCurrentChunk ==
    started => clientLoadedChunks = InterestBlock(currentPlayerChunk)

\* ... and which a render frame sets to the chunk of the player's position
RenderFrameRecentresBlock ==
    [][ FrameHandled =>
          /\ currentPlayerChunk' = FloorChunk(player')
          /\ clientLoadedChunks' = InterestBlock(FloorChunk(player')) ]_vars

\* a chunkUpdate has just been handled that names a chunk the player is not
\* in: a chunk within radius 2 of the player is not loaded
StaleChunkUpdateUnloadedNearChunk ==
    /\ clientEvent.type = "message"
    /\ clientEvent.message.type = "chunkUpdate"
    /\ FloorChunk(player) = [x |-> 0, z |-> 0]
    /\ currentPlayerChunk = [x |-> 0, z |-> -1]
    /\ << 0, 2 >> \notin clientLoadedChunks

\* a render frame has just moved the loaded block to the player's chunk
BlockRecentredByFrame ==
    /\ clientEvent.type = "frame"
    /\ FloorChunk(player) = [x |-> 0, z |-> -1]
    /\ clientLoadedChunks = BlockAroundPlayer

\* the players of a snapshot other than this client
RemotePlayersOf(data) == DOMAIN data.players \ {localClientId}

(***************************************************************************)
(* C36.  After the client handles a gameState, its set of remote-player    *)
(* representations (otherPlayers) is exactly the set of player ids of the  *)
(* snapshot minus its own id: an absent player is removed, a present one   *)
(* is created if missing, and the own id is never represented.             *)
(***************************************************************************)
C36_RemotePlayersMatchSnapshot ==
    [][ MessageHandled("gameState")
            => DOMAIN otherPlayers' = RemotePlayersOf(HandledSnapshot) ]_vars

\* ... which holds for the snapshots that list a position for every player
RemotePlayersMatchWellFormedSnapshot ==
    [][ MessageHandled("gameState") /\ WellFormed(HandledSnapshot)
            => DOMAIN otherPlayers' = RemotePlayersOf(HandledSnapshot) ]_vars

\* the own id is never represented as a remote player
OwnIdNeverRemote == localClientId \notin DOMAIN otherPlayers

\* a snapshot without the other player has just been handled and its
\* representation is gone
RemotePlayerRemoved ==
    /\ clientEvent.type = "message"
    /\ clientEvent.message.type = "gameState"
    /\ DOMAIN clientEvent.message.data.players = {OwnId}
    /\ otherPlayers = << >>
    /\ nWorldEvents = 3

\* a snapshot with a null entry has just been handled: the player listed
\* after it has no representation
PlayerAfterNullEntryMissing ==
    /\ clientEvent.type = "message"
    /\ clientEvent.message.type = "gameState"
    /\ ThirdId \in DOMAIN clientEvent.message.data.players
    /\ DOMAIN otherPlayers = {OtherId}

\* the fish snapshots the message listener has just been given, and those
\* of them that came in a fishSpawn or a fishInit
JustDelivered ==
    IF clientEvent'.type = "message" THEN FishCarriedBy(clientEvent'.message) ELSE {}

JustCreated ==
    IF AnyMessageHandled /\ clientEvent'.message.type \in {"fishSpawn", "fishInit"}
    THEN JustDelivered
    ELSE {}

\* the entity of an id is what it was (or there is still none)
EntityUntouched(id) ==
    IF id \in DOMAIN clientFishEntities
    THEN id \in DOMAIN clientFishEntities'
         /\ clientFishEntities'[id] = clientFishEntities[id]
    ELSE id \notin DOMAIN clientFishEntities'

\* the entity of a fish has just been made from its snapshot
EntityMadeFrom(fish) ==
    /\ fish.id \in DOMAIN clientFishEntities'
    /\ clientFishEntities'[fish.id].mesh = fish.position
    /\ clientFishEntities'[fish.id].chunkKey = << fish.chunkX, fish.chunkZ >>

(***************************************************************************)
(* C37.  createFishEntity is idempotent per fish id: delivering the same   *)
(* fish snapshot any number of times, through any mix of fishSpawn,        *)
(* fishInit and gameState, leaves exactly one entity for that id, and the  *)
(* second and later deliveries through fishSpawn or fishInit change        *)
(* nothing.                                                                *)
(***************************************************************************)
C37_OneEntityPerDeliveredFish ==
    [][ /\ \A fish \in JustDelivered : fish.id \in DOMAIN clientFishEntities'
        /\ \A fish \in JustCreated :
              fish \in deliveredFish => EntityUntouched(fish.id) ]_vars

(***************************************************************************)
(* C37, amended.  A fishSpawn or fishInit delivery of a fish whose id has  *)
(* an entity changes nothing; for an id without entity it makes one from   *)
(* the snapshot if the fish's chunk is loaded on the client and none       *)
(* otherwise; it touches no other fish.  A gameState keeps the entity of   *)
(* every fish it lists and updates it in place.                            *)
(***************************************************************************)
C37_OneEntityPerFishOfLoadedChunk ==
    [][ /\ \A fish \in JustCreated :
              IF fish.id \in DOMAIN clientFishEntities
              THEN EntityUntouched(fish.id)
              ELSE IF << fish.chunkX, fish.chunkZ >> \in clientLoadedChunks
              THEN EntityMadeFrom(fish)
              ELSE fish.id \notin DOMAIN clientFishEntities'
        /\ JustCreated # {} =>
              \A id \in (DOMAIN clientFishEntities \cup DOMAIN clientFishEntities')
                            \ { fish.id : fish \in JustCreated } : EntityUntouched(id)
        /\ MessageHandled("gameState") =>
              \A fish \in JustDelivered :
                  fish.id \in DOMAIN clientFishEntities =>
                      /\ fish.id \in DOMAIN clientFishEntities'
                      /\ clientFishEntities'[fish.id].smoothVelocity
                             = clientFishEntities[fish.id].smoothVelocity ]_vars

\* ... and its case happens: a fishSpawn has just been handled for a fish
\* that was delivered before and that render frames have moved since
C37_Witness ==
    /\ clientEvent.type = "message"
    /\ clientEvent.message.type = "fishSpawn"
    /\ clientEvent.message.fish = FishA
    /\ 0 \in DOMAIN clientFishEntities
    /\ clientFishEntities[0].smoothVelocity.defined
    /\ clientFishEntities[0].mesh # FishA.position

\* a fishSpawn for a fish of an unloaded chunk has just been handled: there
\* is no entity for its id
DeliveredFishWithoutEntity ==
    /\ clientEvent.type = "message"
    /\ clientEvent.message.type = "fishSpawn"
    /\ clientEvent.message.fish = FishC
    /\ 2 \notin DOMAIN clientFishEntities

====
